---------------------------- MODULE Spec2Model ----------------------------
(***************************************************************************)
(* nano-looper: the room broker (server/ws-handler.ts), the wire codec     *)
(* (lib/ws-types.ts) and the client transport (hooks/useRoomSocket.ts).    *)
(*                                                                         *)
(* JavaScript values are tagged records [t, v] so that typeof and          *)
(* truthiness are computed the way the code computes them.  A JSON text    *)
(* is [json, fields]: "object" with the members it carries, or "malformed" *)
(* for a text JSON.parse throws on.                                        *)
(***************************************************************************)
EXTENDS Integers, Sequences, FiniteSets, TLC

VARIABLES
    wsOpen,           \* broker: connection -> socket is open
    wsData,           \* broker: connection -> ws.data {roomId, role}
    wsTopics,         \* broker: connection -> topics the socket is subscribed to
    roomConnections,  \* broker: Map<roomId, Set<connection>>
    quietMs,          \* ms since the broker last saw a socket open or a frame arrive
    ev,               \* the last broker event: [op, conn, raw]
    sent,             \* connection -> frames the last broker event sent to it
    lifecycle,        \* client: "init", "mounted" or "unmounted" (the owning component)
    props,            \* client: roomId and role of the current render
    connectionState,  \* client: useState connectionState
    wsRef,            \* client: wsRef.current (0 is null)
    sockets,          \* client: socket id -> [readyState, props of the connect closure, opened]
    reconnectTimeoutRef,   \* client: reconnectTimeoutRef.current (0 is null)
    timers,           \* client: timer id -> [pending, props of the connect closure]
    heartbeatIntervalRef,  \* client: heartbeatIntervalRef.current is not null
    heartbeatTimers,  \* client: number of setInterval timers that are running
    reconnectDelayRef,     \* client: reconnectDelayRef.current
    messageQueueRef,  \* client: messageQueueRef.current
    cev,              \* the last client event: [op, sock, arg]
    tx,               \* frames the last client event wrote: <<[sock, frame]>>
    timeoutDelay,     \* delay the last client event gave setTimeout (0: no call)
    inbox,            \* room: connection -> frames sent to its page, not yet handled
    app,              \* room: connection -> its page's [isMobile, tempo, padMappings]
    syncDue,          \* room: controllers whose join found a renderer, no sync-state yet
    voices,           \* mixer: this.voices
    samples,          \* mixer: this.samples, soundId -> [left, right, length]
    attackIncrement,  \* mixer: this.attackIncrement, in units of 1/EnvOne
    releaseIncrement, \* mixer: this.releaseIncrement, in units of 1/EnvOne
    envelopeConfigured,    \* mixer: this.envelopeConfigured
    output,           \* mixer: outputs[0] after the last process call
    voiceFrames,      \* mixer: voice -> the voice after each frame of the last process call
    mev,              \* the last mixer event: [op, soundId, chans, idle: the first idle voice before a trigger]
    engine,           \* audio: the AudioEngine singleton
    hook,             \* audio: useAudioEngine's [state, initCalledRef]
    page,             \* audio: the room page's [isMobile, audioInitializedRef, socket, prev, zombie]
    posted,           \* audio: messages the last event posted to the worklet's port
    aev,              \* the last audio event: [op, role, padIndex, threw]
    rooms,            \* db: the rows of the rooms table
    now,              \* db: the server's clock
    reqs,             \* db: request -> [pc, padIndex, soundId, room]: where its handler waits
    saveReturned,     \* db: a save request was answered with 200
    dev,              \* the last server event: [op, req, status (0: none yet), padIndex]
    port,             \* port: the messages posted to the mixer it has not taken yet
    loads,            \* port: sound -> the loadSound calls waiting for fetch and decode
    pev               \* the last message the mixer took: [type, soundId, stored]

brokerVars == <<wsOpen, wsData, wsTopics, roomConnections, quietMs, ev, sent>>

clientVars == <<lifecycle, props, connectionState, wsRef, sockets, reconnectTimeoutRef,
                timers, heartbeatIntervalRef, heartbeatTimers, reconnectDelayRef,
                messageQueueRef, cev, tx, timeoutDelay>>

roomVars == <<inbox, app, syncDue>>

mixerVars == <<voices, samples, attackIncrement, releaseIncrement, envelopeConfigured,
               output, voiceFrames, mev>>

audioVars == <<engine, hook, page, posted, aev>>

dbVars == <<rooms, now, reqs, saveReturned, dev>>

portVars == <<port, loads, pev>>

vars == <<brokerVars, clientVars, roomVars, mixerVars, audioVars, dbVars, portVars>>

---------------------------------------------------------------------------
(* JavaScript values *)

Undefined == [t |-> "undefined"]
JSNull == [t |-> "null"]
Str(s) == [t |-> "string", v |-> s]
Num(n) == [t |-> "number", v |-> n]
ObjV(o) == [t |-> "object", v |-> o]
\* the number n + 1/2
Half(n) == [t |-> "number", v |-> n, half |-> TRUE]
\* x <= n for a number x and an integer n (x >= n is x.v >= n)
Le(x, n) == x.v < n \/ (x.v = n /\ "half" \notin DOMAIN x)

TypeOf(x) == IF x.t = "null" THEN "object" ELSE x.t

Truthy(x) ==
    CASE x.t = "string" -> x.v # ""
      [] x.t = "number" -> x.v # 0
      [] x.t = "object" -> TRUE
      [] OTHER -> FALSE

\* o.k for a JavaScript object o: undefined when the member is absent
Get(o, k) == IF k \in DOMAIN o THEN o[k] ELSE Undefined

IsStr(x, s) == x.t = "string" /\ x.v = s

---------------------------------------------------------------------------
(* lib/ws-types.ts: the codec *)

NoFields == [k \in {} |-> Undefined]
Malformed == [json |-> "malformed", fields |-> NoFields]
JsonObject(o) == [json |-> "object", fields |-> o]

\* JSON.stringify of an object: members whose value is undefined are left out
serializeWSMessage(msg) ==
    JsonObject([k \in {x \in DOMAIN msg : msg[x].t # "undefined"} |-> msg[k]])

IsNull(m) == "t" \in DOMAIN m

parseWSMessage(data) ==
    IF data.json # "object" THEN JSNull
    ELSE LET msg == data.fields
             ty == Get(msg, "type")
         IN
         IF ~Truthy(ty) THEN JSNull
         ELSE IF ty.t # "string" THEN JSNull
         ELSE CASE ty.v = "join" ->
                     IF /\ TypeOf(Get(msg, "roomId")) = "string"
                        /\ \/ IsStr(Get(msg, "role"), "daw")
                           \/ IsStr(Get(msg, "role"), "controller")
                     THEN [type |-> Str("join"), roomId |-> msg.roomId, role |-> msg.role]
                     ELSE JSNull
                [] ty.v = "pad-hit" ->
                     IF /\ TypeOf(Get(msg, "padIndex")) = "number"
                        /\ msg.padIndex.v >= 0
                        /\ Le(msg.padIndex, 15)
                     THEN [type |-> Str("pad-hit"),
                           padIndex |-> msg.padIndex,
                           velocity |-> IF TypeOf(Get(msg, "velocity")) = "number"
                                        THEN msg.velocity ELSE Undefined]
                     ELSE JSNull
                [] ty.v = "sync-state" ->
                     IF /\ TypeOf(Get(msg, "tempo")) = "number"
                        /\ TypeOf(Get(msg, "padMappings")) = "object"
                     THEN [type |-> Str("sync-state"), tempo |-> msg.tempo,
                           padMappings |-> msg.padMappings]
                     ELSE JSNull
                [] ty.v = "tempo-change" ->
                     IF /\ TypeOf(Get(msg, "tempo")) = "number"
                        /\ msg.tempo.v >= 20
                        /\ Le(msg.tempo, 300)
                     THEN [type |-> Str("tempo-change"), tempo |-> msg.tempo]
                     ELSE JSNull
                [] ty.v = "heartbeat" -> [type |-> Str("heartbeat")]
                [] ty.v = "pong" -> [type |-> Str("pong")]
                [] OTHER -> JSNull

\* the type member of a JSON text, "" when it has none
FrameType(f) ==
    IF f.json = "object" /\ "type" \in DOMAIN f.fields THEN f.fields.type.v ELSE ""

ErrorFrame(text) == serializeWSMessage([type |-> Str("error"), message |-> Str(text)])
PongFrame == serializeWSMessage([type |-> Str("pong")])
RequestSyncFrame == serializeWSMessage([type |-> Str("request-sync")])

---------------------------------------------------------------------------
(* the frames the model's clients put on the wire *)

Conns == {"c1", "c2", "c3"}
RoomIds == {"r1", "r2"}
Roles == {"daw", "controller"}

JoinFrame(r, role) ==
    JsonObject([type |-> Str("join"), roomId |-> Str(r), role |-> Str(role)])
PadHitFrame(i) == JsonObject([type |-> Str("pad-hit"), padIndex |-> Num(i)])
SyncStateFrame(tempo, mappings) ==
    JsonObject([type |-> Str("sync-state"), tempo |-> Num(tempo),
                padMappings |-> ObjV(mappings)])
TempoChangeFrame(tempo) == JsonObject([type |-> Str("tempo-change"), tempo |-> Num(tempo)])
HeartbeatFrame == JsonObject([type |-> Str("heartbeat")])

Mappings0 == [p0 |-> Str("a")]

ValidFrames ==
    {JoinFrame(r, role) : r \in RoomIds \cup {""}, role \in Roles}
    \cup {PadHitFrame(5), SyncStateFrame(140, Mappings0), TempoChangeFrame(120),
          HeartbeatFrame, PongFrame}

InvalidFrames ==
    {Malformed,
     JsonObject([type |-> Str("bogus")]),
     JoinFrame("r1", "admin"),
     PadHitFrame(16),
     TempoChangeFrame(301),
     RequestSyncFrame}

RawFrames == ValidFrames \cup InvalidFrames

NoFrame == [json |-> "none", fields |-> NoFields]

---------------------------------------------------------------------------
(* server/ws-handler.ts: the broker.  A handler works on a record          *)
(* b = [data, topics, reg, out]: ws.data of every socket, the runtime's    *)
(* topic subscriptions, roomConnections, and the frames sent so far.       *)

HEARTBEAT_INTERVAL == 30000

NullData == [roomId |-> JSNull, role |-> JSNull]
NoRooms == [r \in {} |-> {}]
NothingSent == [c \in Conns |-> <<>>]

\* ws.send(text)
send(b, ws, text) == [b EXCEPT !.out[ws] = Append(@, text)]

\* ws.publish(topic, text): to every subscriber of the topic except ws itself
publish(b, ws, topic, text) ==
    [b EXCEPT !.out = [d \in Conns |->
        IF d # ws /\ topic \in b.topics[d] THEN Append(b.out[d], text) ELSE b.out[d]]]

subscribe(b, ws, topic) == [b EXCEPT !.topics[ws] = @ \cup {topic}]
unsubscribe(b, ws, topic) == [b EXCEPT !.topics[ws] = @ \ {topic}]

addToRoom(b, roomId, ws) ==
    LET reg == b.reg
        reg1 == IF roomId \in DOMAIN reg THEN reg
                ELSE [r \in DOMAIN reg \cup {roomId} |->
                        IF r = roomId THEN {} ELSE reg[r]]
    IN [b EXCEPT !.reg = [reg1 EXCEPT ![roomId] = @ \cup {ws}]]

\* removeFromRoom that keeps the set of a room when it becomes empty
removeFromRoom_keepsEmpty(b, roomId, ws) ==
    IF roomId \notin DOMAIN b.reg THEN b
    ELSE [b EXCEPT !.reg[roomId] = @ \ {ws}]

removeFromRoom(b, roomId, ws) ==
    LET reg == b.reg IN
    IF roomId \notin DOMAIN reg THEN b
    ELSE LET room == reg[roomId] \ {ws} IN
         IF room = {}
         THEN [b EXCEPT !.reg = [r \in DOMAIN reg \ {roomId} |-> reg[r]]]
         ELSE [b EXCEPT !.reg = [reg EXCEPT ![roomId] = room]]

\* onJoin that does not leave the previous room
onJoin_keepsPrevious(b, ws, parsed) ==
    LET roomId == parsed.roomId.v
        role == parsed.role.v
        b2 == [b EXCEPT !.data[ws] = [roomId |-> Str(roomId), role |-> Str(role)]]
    IN IF roomId = "" THEN b2
       ELSE LET b3 == addToRoom(subscribe(b2, ws, roomId), roomId, ws) IN
            IF role = "controller"
            THEN publish(b3, ws, roomId, RequestSyncFrame)
            ELSE b3

\* onJoin that asks for the state whatever the role is
onJoin_alwaysAsks(b, ws, parsed) ==
    LET roomId == parsed.roomId.v
        role == parsed.role.v
        prev == b.data[ws].roomId
        b1 == IF Truthy(prev)
              THEN removeFromRoom(unsubscribe(b, ws, prev.v), prev.v, ws)
              ELSE b
        b2 == [b1 EXCEPT !.data[ws] = [roomId |-> Str(roomId), role |-> Str(role)]]
    IN IF roomId = "" THEN b2
       ELSE publish(addToRoom(subscribe(b2, ws, roomId), roomId, ws), ws, roomId,
                    RequestSyncFrame)

\* case "join".  ws.subscribe("") throws in the runtime ("subscribe requires
\* a non-empty topic name"): the handler is left after line 48.
onJoin(b, ws, parsed) ==
    LET roomId == parsed.roomId.v
        role == parsed.role.v
        prev == b.data[ws].roomId
        b1 == IF Truthy(prev)
              THEN removeFromRoom(unsubscribe(b, ws, prev.v), prev.v, ws)
              ELSE b
        b2 == [b1 EXCEPT !.data[ws] = [roomId |-> Str(roomId), role |-> Str(role)]]
    IN IF roomId = "" THEN b2
       ELSE LET b3 == addToRoom(subscribe(b2, ws, roomId), roomId, ws) IN
            IF role = "controller"
            THEN publish(b3, ws, roomId, RequestSyncFrame)
            ELSE b3

onPadHit(b, ws, parsed) ==
    IF ~Truthy(b.data[ws].roomId)
    THEN send(b, ws, ErrorFrame("Not joined to a room"))
    ELSE publish(b, ws, b.data[ws].roomId.v, serializeWSMessage(parsed))

\* onSyncState without the role check
onSyncState_anyRole(b, ws, parsed) ==
    IF ~Truthy(b.data[ws].roomId)
    THEN send(b, ws, ErrorFrame("Not joined to a room"))
    ELSE publish(b, ws, b.data[ws].roomId.v, serializeWSMessage(parsed))

onSyncState(b, ws, parsed) ==
    IF ~Truthy(b.data[ws].roomId)
    THEN send(b, ws, ErrorFrame("Not joined to a room"))
    ELSE IF ~IsStr(b.data[ws].role, "daw")
    THEN send(b, ws, ErrorFrame("Only DAW can sync state"))
    ELSE publish(b, ws, b.data[ws].roomId.v, serializeWSMessage(parsed))

\* onTempoChange that drops the frame of an unjoined connection without a reply
onTempoChange_silent(b, ws, parsed) ==
    IF ~Truthy(b.data[ws].roomId)
    THEN b
    ELSE publish(b, ws, b.data[ws].roomId.v, serializeWSMessage(parsed))

onTempoChange(b, ws, parsed) ==
    IF ~Truthy(b.data[ws].roomId)
    THEN send(b, ws, ErrorFrame("Not joined to a room"))
    ELSE publish(b, ws, b.data[ws].roomId.v, serializeWSMessage(parsed))

\* case "heartbeat" that also tells the room
onHeartbeat_published(b, ws) ==
    LET b1 == send(b, ws, PongFrame) IN
    IF Truthy(b.data[ws].roomId) THEN publish(b1, ws, b.data[ws].roomId.v, PongFrame) ELSE b1

onHeartbeat(b, ws) == send(b, ws, PongFrame)

\* message that forgets the connection's room on an unparseable frame
message_resetsOnInvalid(b, ws, raw) ==
    LET parsed == parseWSMessage(raw) IN
    IF IsNull(parsed)
    THEN send([b EXCEPT !.data[ws] = NullData], ws, ErrorFrame("Invalid message format"))
    ELSE CASE parsed.type.v = "join" -> onJoin(b, ws, parsed)
           [] parsed.type.v = "pad-hit" -> onPadHit(b, ws, parsed)
           [] parsed.type.v = "sync-state" -> onSyncState(b, ws, parsed)
           [] parsed.type.v = "tempo-change" -> onTempoChange(b, ws, parsed)
           [] parsed.type.v = "heartbeat" -> onHeartbeat(b, ws)
           [] OTHER -> b

\* websocketHandler.message
message(b, ws, raw) ==
    LET parsed == parseWSMessage(raw) IN
    IF IsNull(parsed) THEN send(b, ws, ErrorFrame("Invalid message format"))
    ELSE CASE parsed.type.v = "join" -> onJoin(b, ws, parsed)
           [] parsed.type.v = "pad-hit" -> onPadHit(b, ws, parsed)
           [] parsed.type.v = "sync-state" -> onSyncState(b, ws, parsed)
           [] parsed.type.v = "tempo-change" -> onTempoChange(b, ws, parsed)
           [] parsed.type.v = "heartbeat" -> onHeartbeat(b, ws)
           [] OTHER -> b

\* close that unsubscribes and leaves the registry as it is
close_staysRegistered(b, ws) ==
    LET prev == b.data[ws].roomId IN
    IF Truthy(prev) THEN unsubscribe(b, ws, prev.v) ELSE b

\* websocketHandler.close
close(b, ws) ==
    LET prev == b.data[ws].roomId IN
    IF Truthy(prev) THEN removeFromRoom(unsubscribe(b, ws, prev.v), prev.v, ws) ELSE b

Broker == [data |-> wsData, topics |-> wsTopics, reg |-> roomConnections,
           out |-> NothingSent]

---------------------------------------------------------------------------
(* broker events *)

MaxQuietWindows == 2

\* server.upgrade, then websocketHandler.open
Open(c) ==
    /\ ~wsOpen[c]
    /\ wsOpen' = [wsOpen EXCEPT ![c] = TRUE]
    /\ wsData' = [wsData EXCEPT ![c] = NullData]
    /\ wsTopics' = [wsTopics EXCEPT ![c] = {}]
    /\ quietMs' = 0
    /\ ev' = [op |-> "open", conn |-> c, raw |-> NoFrame]
    /\ sent' = NothingSent
    /\ UNCHANGED <<roomConnections, clientVars, roomVars, mixerVars, audioVars, dbVars, portVars>>

\* a frame from connection c arrives: websocketHandler.message
Message(c, raw) ==
    /\ wsOpen[c]
    /\ LET b == message(Broker, c, raw) IN
       /\ wsData' = b.data
       /\ wsTopics' = b.topics
       /\ roomConnections' = b.reg
       /\ sent' = b.out
    /\ quietMs' = 0
    /\ ev' = [op |-> "message", conn |-> c, raw |-> raw]
    /\ UNCHANGED <<wsOpen, clientVars, roomVars, mixerVars, audioVars, dbVars, portVars>>

\* the socket of c closes: websocketHandler.close; the runtime drops the
\* closed socket from every topic
Close(c) ==
    /\ wsOpen[c]
    /\ LET b == close(Broker, c) IN
       /\ wsData' = b.data
       /\ wsTopics' = [b.topics EXCEPT ![c] = {}]
       /\ roomConnections' = b.reg
       /\ sent' = b.out
    /\ wsOpen' = [wsOpen EXCEPT ![c] = FALSE]
    /\ UNCHANGED <<quietMs, clientVars, roomVars, mixerVars, audioVars, dbVars, portVars>>
    /\ ev' = [op |-> "close", conn |-> c, raw |-> NoFrame]

\* HEARTBEAT_INTERVAL ms pass in which no socket opens and no frame arrives
Elapse ==
    /\ \E c \in Conns : wsOpen[c]
    /\ quietMs < MaxQuietWindows * HEARTBEAT_INTERVAL
    /\ quietMs' = quietMs + HEARTBEAT_INTERVAL
    /\ ev' = [op |-> "elapse", conn |-> "c1", raw |-> NoFrame]
    /\ sent' = NothingSent
    /\ UNCHANGED <<wsOpen, wsData, wsTopics, roomConnections, clientVars, roomVars, mixerVars, audioVars, dbVars, portVars>>

BrokerNext ==
    \/ \E c \in Conns : Open(c)
    \/ \E c \in Conns, raw \in RawFrames : Message(c, raw)
    \/ \E c \in Conns : Close(c)
    \/ Elapse

\* frames at and around the limits the codec checks
WireFrames ==
    {JoinFrame("r1", "daw"), JoinFrame("r1", "controller"), JoinFrame("", "daw"),
     JoinFrame("r1", "admin"),
     PadHitFrame(0), PadHitFrame(15), PadHitFrame(-1), PadHitFrame(16),
     JsonObject([type |-> Str("pad-hit"), padIndex |-> Half(7)]),
     JsonObject([type |-> Str("pad-hit"), padIndex |-> Str("5")]),
     TempoChangeFrame(20), TempoChangeFrame(300), TempoChangeFrame(19), TempoChangeFrame(301),
     SyncStateFrame(20, Mappings0), SyncStateFrame(300, Mappings0),
     SyncStateFrame(19, Mappings0), SyncStateFrame(301, Mappings0)}

\* two connections that open and send the frames of WireFrames
WireNext ==
    \/ \E c \in {"c1", "c2"} : Open(c)
    \/ \E c \in {"c1", "c2"}, raw \in WireFrames : Message(c, raw)


---------------------------------------------------------------------------
(* hooks/useRoomSocket.ts: the client transport.  A handler works on a     *)
(* record t of the refs and the sockets and timers they point to; t.tx     *)
(* collects the frames the handler writes.                                 *)

INITIAL_RECONNECT_DELAY == 1000
MAX_RECONNECT_DELAY == 30000

MaxSockets == 2
MaxTimers == 2
MaxQueue == 2

SockIds == 1..MaxSockets
TimerIds == 1..MaxTimers

\* the roomId and role the component passes: a phone in room r1
ClientProps == {[roomId |-> "r1", role |-> "controller"]}
Props0 == [roomId |-> "r1", role |-> "controller"]

\* what sendPadHit, sendSyncState and sendTempoChange hand to sendMessage
PadHitMsg(i) == [type |-> Str("pad-hit"), padIndex |-> Num(i), velocity |-> Undefined]
SendMsgs == {PadHitMsg(3), PadHitMsg(4)}
NoMsg == [type |-> Str("")]

FreeSocket == [readyState |-> "FREE", props |-> Props0, opened |-> FALSE]
FreeTimer == [pending |-> FALSE, props |-> Props0]

Transport ==
    [wsRef |-> wsRef, sockets |-> sockets,
     reconnectTimeoutRef |-> reconnectTimeoutRef, timers |-> timers,
     heartbeatIntervalRef |-> heartbeatIntervalRef, heartbeatTimers |-> heartbeatTimers,
     reconnectDelayRef |-> reconnectDelayRef, messageQueueRef |-> messageQueueRef,
     connectionState |-> connectionState, tx |-> <<>>, timeoutDelay |-> 0]

Min(a, b) == IF a < b THEN a ELSE b
Lowest(S) == CHOOSE x \in S : \A y \in S : x <= y

IsOpen(t) == t.wsRef # 0 /\ t.sockets[t.wsRef].readyState = "OPEN"

\* WebSocket.send on socket s
wsSend(t, s, frame) == [t EXCEPT !.tx = Append(@, [sock |-> s, frame |-> frame])]

\* WebSocket.close on socket s: nothing when it is closing or closed; the
\* close event comes later
wsClose(t, s) ==
    IF t.sockets[s].readyState \in {"CONNECTING", "OPEN"}
    THEN [t EXCEPT !.sockets[s].readyState = "CLOSING"]
    ELSE t

\* a closed socket nothing refers to any more is forgotten
Collect(t) ==
    [t EXCEPT !.sockets = [s \in SockIds |->
        IF t.sockets[s].readyState = "CLOSED" /\ s # t.wsRef THEN FreeSocket
        ELSE t.sockets[s]]]

sendMessage(t, msg) ==
    IF IsOpen(t)
    THEN wsSend(t, t.wsRef, serializeWSMessage(msg))
    ELSE [t EXCEPT !.messageQueueRef = Append(@, msg)]

\* flushMessageQueue that takes the newest queued message first (pop for shift)
RECURSIVE flushMessageQueue_newestFirst(_)
flushMessageQueue_newestFirst(t) ==
    IF Len(t.messageQueueRef) > 0 /\ IsOpen(t)
    THEN LET n == Len(t.messageQueueRef) IN
         flushMessageQueue_newestFirst(
            wsSend([t EXCEPT !.messageQueueRef = SubSeq(@, 1, n - 1)], t.wsRef,
                   serializeWSMessage(t.messageQueueRef[n])))
    ELSE t

RECURSIVE flushMessageQueue(_)
flushMessageQueue(t) ==
    IF Len(t.messageQueueRef) > 0 /\ IsOpen(t)
    THEN flushMessageQueue(
            wsSend([t EXCEPT !.messageQueueRef = Tail(@)], t.wsRef,
                   serializeWSMessage(Head(t.messageQueueRef))))
    ELSE t

stopHeartbeat(t) ==
    IF t.heartbeatIntervalRef
    THEN [t EXCEPT !.heartbeatTimers = @ - 1, !.heartbeatIntervalRef = FALSE]
    ELSE t

startHeartbeat(t) ==
    [stopHeartbeat(t) EXCEPT !.heartbeatTimers = @ + 1, !.heartbeatIntervalRef = TRUE]

\* the setInterval callback
heartbeatTick(t) ==
    IF IsOpen(t) THEN wsSend(t, t.wsRef, HeartbeatFrame) ELSE t

\* connect, of the render whose roomId and role are p
connect(t, p) ==
    LET t1 == IF t.wsRef # 0 THEN wsClose(t, t.wsRef) ELSE t
        t2 == Collect([t1 EXCEPT !.wsRef = 0, !.connectionState = "connecting"])
        ws == Lowest({s \in SockIds : t2.sockets[s].readyState = "FREE"})
    IN [t2 EXCEPT !.sockets[ws] = [readyState |-> "CONNECTING", props |-> p, opened |-> FALSE],
                  !.wsRef = ws]

CanConnect(t) ==
    \E s \in SockIds : \/ t.sockets[s].readyState = "FREE"
                       \/ (s = t.wsRef /\ t.sockets[s].readyState = "CLOSED")

\* ws.onopen of socket ws
onopen(t, ws) ==
    LET p == t.sockets[ws].props
        t1 == [t EXCEPT !.sockets[ws].readyState = "OPEN",
                        !.sockets[ws].opened = TRUE,
                        !.connectionState = "connected",
                        !.reconnectDelayRef = INITIAL_RECONNECT_DELAY]
        t2 == wsSend(t1, ws, JoinFrame(p.roomId, p.role))
    IN flushMessageQueue(startHeartbeat(t2))

\* onclose that reconnects only after a connection that had opened
onclose_onlyAfterConnected(t, ws) ==
    LET t1 == stopHeartbeat([t EXCEPT !.sockets[ws].readyState = "CLOSED"])
        id == Lowest({i \in TimerIds : ~t1.timers[i].pending})
    IN IF t.connectionState = "connected"
       THEN Collect([t1 EXCEPT !.connectionState = "disconnected",
                               !.timers[id] = [pending |-> TRUE, props |-> t.sockets[ws].props],
                               !.timeoutDelay = t.reconnectDelayRef,
                               !.reconnectTimeoutRef = id])
       ELSE Collect([t1 EXCEPT !.connectionState = "disconnected"])

\* ws.onclose of socket ws: the reconnect timer it sets calls the connect
\* of the render that made the socket
onclose(t, ws) ==
    LET t1 == stopHeartbeat([t EXCEPT !.sockets[ws].readyState = "CLOSED"])
        id == Lowest({i \in TimerIds : ~t1.timers[i].pending})
    IN Collect([t1 EXCEPT !.connectionState = "disconnected",
                          !.timers[id] = [pending |-> TRUE, props |-> t.sockets[ws].props],
                               !.timeoutDelay = t.reconnectDelayRef,
                          !.reconnectTimeoutRef = id])

\* the setTimeout callback of timer id
reconnect(t, id) ==
    LET t1 == [t EXCEPT !.timers[id] = FreeTimer,
                        !.connectionState = "reconnecting",
                        !.reconnectDelayRef = Min(@ * 2, MAX_RECONNECT_DELAY)]
    IN connect(t1, t.timers[id].props)

clearTimeout(t, id) == [t EXCEPT !.timers[id] = FreeTimer]

\* the effect's cleanup
cleanup(t) ==
    LET t1 == IF t.reconnectTimeoutRef # 0 THEN clearTimeout(t, t.reconnectTimeoutRef) ELSE t
        t2 == stopHeartbeat(t1)
    IN IF t2.wsRef # 0 THEN wsClose(t2, t2.wsRef) ELSE t2

---------------------------------------------------------------------------
(* client events *)

Commit(t) ==
    /\ wsRef' = t.wsRef
    /\ sockets' = t.sockets
    /\ reconnectTimeoutRef' = t.reconnectTimeoutRef
    /\ timers' = t.timers
    /\ heartbeatIntervalRef' = t.heartbeatIntervalRef
    /\ heartbeatTimers' = t.heartbeatTimers
    /\ reconnectDelayRef' = t.reconnectDelayRef
    /\ messageQueueRef' = t.messageQueueRef
    /\ connectionState' = t.connectionState
    /\ tx' = t.tx
    /\ timeoutDelay' = t.timeoutDelay

\* the component mounts with roomId and role p: the effect runs connect
Mount(p) ==
    /\ lifecycle = "init"
    /\ lifecycle' = "mounted"
    /\ props' = p
    /\ Commit(connect(Transport, p))
    /\ cev' = [op |-> "mount", sock |-> 0, arg |-> NoMsg]
    /\ UNCHANGED <<brokerVars, roomVars, mixerVars, audioVars, dbVars, portVars>>

\* a render changes connect's dependencies: cleanup, then connect again
Rerun(p) ==
    /\ lifecycle = "mounted"
    /\ CanConnect(cleanup(Transport))
    /\ props' = p
    /\ Commit(connect(cleanup(Transport), p))
    /\ cev' = [op |-> "rerun", sock |-> 0, arg |-> NoMsg]
    /\ UNCHANGED <<lifecycle, brokerVars, roomVars, mixerVars, audioVars, dbVars, portVars>>

\* the component unmounts: cleanup
Unmount ==
    /\ lifecycle = "mounted"
    /\ lifecycle' = "unmounted"
    /\ Commit(cleanup(Transport))
    /\ cev' = [op |-> "unmount", sock |-> 0, arg |-> NoMsg]
    /\ UNCHANGED <<props, brokerVars, roomVars, mixerVars, audioVars, dbVars, portVars>>

\* the open event of socket s
SocketOpen(s) ==
    /\ sockets[s].readyState = "CONNECTING"
    /\ Commit(onopen(Transport, s))
    /\ cev' = [op |-> "onopen", sock |-> s, arg |-> NoMsg]
    /\ UNCHANGED <<lifecycle, props, brokerVars, roomVars, mixerVars, audioVars, dbVars, portVars>>

\* the close event of socket s: the connection failed, was lost, or the
\* closing handshake of close() ended
SocketClose(s) ==
    /\ sockets[s].readyState \in {"CONNECTING", "OPEN", "CLOSING"}
    /\ \E i \in TimerIds : ~timers[i].pending
    /\ Commit(onclose(Transport, s))
    /\ cev' = [op |-> "onclose", sock |-> s, arg |-> NoMsg]
    /\ UNCHANGED <<lifecycle, props, brokerVars, roomVars, mixerVars, audioVars, dbVars, portVars>>

\* reconnect timer id fires
ReconnectFire(id) ==
    /\ timers[id].pending
    /\ CanConnect(Transport)
    /\ Commit(reconnect(Transport, id))
    /\ cev' = [op |-> "reconnect", sock |-> 0, arg |-> NoMsg]
    /\ UNCHANGED <<lifecycle, props, brokerVars, roomVars, mixerVars, audioVars, dbVars, portVars>>

\* a heartbeat interval fires
HeartbeatFire ==
    /\ heartbeatTimers > 0
    /\ Commit(heartbeatTick(Transport))
    /\ cev' = [op |-> "heartbeat", sock |-> 0, arg |-> NoMsg]
    /\ UNCHANGED <<lifecycle, props, brokerVars, roomVars, mixerVars, audioVars, dbVars, portVars>>

\* the component calls sendPadHit, sendSyncState or sendTempoChange
Send(msg) ==
    /\ lifecycle = "mounted"
    /\ IsOpen(Transport) \/ Len(messageQueueRef) < MaxQueue
    /\ Commit(sendMessage(Transport, msg))
    /\ cev' = [op |-> "send", sock |-> 0, arg |-> msg]
    /\ UNCHANGED <<lifecycle, props, brokerVars, roomVars, mixerVars, audioVars, dbVars, portVars>>

ClientNext ==
    \/ \E p \in ClientProps : Mount(p)
    \/ \E p \in ClientProps : Rerun(p)
    \/ Unmount
    \/ \E s \in SockIds : SocketOpen(s)
    \/ \E s \in SockIds : SocketClose(s)
    \/ \E id \in TimerIds : ReconnectFire(id)
    \/ HeartbeatFire
    \/ \E msg \in SendMsgs : Send(msg)

---------------------------------------------------------------------------
(* routes/room._index.tsx over the transport and the broker: the pages of  *)
(* one room.  A frame a page writes is handled by the broker in the same   *)
(* step; the frames the broker sends wait in the inbox of each socket      *)
(* until the page's ws.onmessage takes them.                               *)

DEFAULT_TEMPO == 120
MaxInbox == 2

Room == "r1"
Tempos == {DEFAULT_TEMPO, 140}
PadMappings == {Mappings0}

\* what the loader gives a page that opens the room
App0(mobile) == [isMobile |-> mobile, tempo |-> DEFAULT_TEMPO, padMappings |-> Mappings0]

RoleOf(a) == IF a.isMobile THEN "controller" ELSE "daw"

\* sendSyncState(tempo, padMappings) of page a, as sendMessage serializes it
SyncStateOf(a) ==
    serializeWSMessage([type |-> Str("sync-state"), tempo |-> Num(a.tempo),
                        padMappings |-> ObjV(a.padMappings)])

handleSyncState(a, newTempo, newPadMappings) ==
    IF a.isMobile THEN [a EXCEPT !.tempo = newTempo, !.padMappings = newPadMappings]
    ELSE a

handleTempoChange(a, newTempo) == [a EXCEPT !.tempo = newTempo]

\* ws.onmessage of the page a: a frame parseWSMessage rejects is dropped,
\* and there is no case for any other type
onmessage(a, data) ==
    LET msg == parseWSMessage(data) IN
    IF IsNull(msg) THEN a
    ELSE CASE msg.type.v = "sync-state" -> handleSyncState(a, msg.tempo.v, msg.padMappings.v)
           [] msg.type.v = "tempo-change" -> handleTempoChange(a, msg.tempo.v)
           [] OTHER -> a

IsRenderer(d) ==
    wsOpen[d] /\ wsData[d] = [roomId |-> Str(Room), role |-> Str("daw")]

Fits(out) == \A d \in Conns : wsOpen[d] => Len(inbox[d]) + Len(out[d]) <= MaxInbox

\* the broker has handled the frames of one page: its state, and what it
\* sent goes to the inboxes of the sockets that are open
Handled(b) ==
    /\ wsData' = b.data
    /\ wsTopics' = b.topics
    /\ roomConnections' = b.reg
    /\ sent' = b.out
    /\ quietMs' = 0

\* a page opens the room on a desktop (renderer) or a phone (controller):
\* its socket opens and onopen writes the join; connectionState becoming
\* "connected" makes the renderer's effect write its state
RoomOpen(c, mobile) ==
    /\ ~wsOpen[c]
    /\ LET a == App0(mobile)
           b0 == [Broker EXCEPT !.data[c] = NullData, !.topics[c] = {}]
           b1 == message(b0, c, JoinFrame(Room, RoleOf(a)))
           b2 == IF mobile THEN b1 ELSE message(b1, c, SyncStateOf(a))
       IN /\ Fits(b2.out)
          /\ Handled(b2)
          /\ inbox' = [d \in Conns |-> IF wsOpen[d] THEN inbox[d] \o b2.out[d] ELSE <<>>]
          /\ app' = [app EXCEPT ![c] = a]
    /\ wsOpen' = [wsOpen EXCEPT ![c] = TRUE]
    /\ syncDue' = IF mobile /\ (\E d \in Conns \ {c} : IsRenderer(d))
                  THEN syncDue \cup {c} ELSE syncDue
    /\ ev' = [op |-> "message", conn |-> c, raw |-> JoinFrame(Room, RoleOf(App0(mobile)))]
    /\ UNCHANGED <<clientVars, mixerVars, audioVars, dbVars, portVars>>

\* the user of a renderer changes the tempo or a pad mapping: the effect
\* writes the new state
RoomEdit(c, tempo, mappings) ==
    /\ wsOpen[c]
    /\ ~app[c].isMobile
    /\ <<tempo, mappings>> # <<app[c].tempo, app[c].padMappings>>
    /\ LET a == [app[c] EXCEPT !.tempo = tempo, !.padMappings = mappings]
           b == message(Broker, c, SyncStateOf(a))
       IN /\ Fits(b.out)
          /\ Handled(b)
          /\ inbox' = [d \in Conns |-> inbox[d] \o b.out[d]]
          /\ app' = [app EXCEPT ![c] = a]
          /\ ev' = [op |-> "message", conn |-> c, raw |-> SyncStateOf(a)]
    /\ UNCHANGED <<wsOpen, syncDue, clientVars, mixerVars, audioVars, dbVars, portVars>>

\* the heartbeat interval of the page of c fires: the broker answers pong
RoomHeartbeat(c) ==
    /\ wsOpen[c]
    /\ LET b == message(Broker, c, HeartbeatFrame) IN
       /\ Fits(b.out)
       /\ Handled(b)
       /\ inbox' = [d \in Conns |-> inbox[d] \o b.out[d]]
    /\ ev' = [op |-> "message", conn |-> c, raw |-> HeartbeatFrame]
    /\ UNCHANGED <<wsOpen, app, syncDue, clientVars, mixerVars, audioVars, dbVars, portVars>>

\* the message event of the oldest frame waiting at the page of c
RoomDeliver(c) ==
    /\ wsOpen[c]
    /\ inbox[c] # <<>>
    /\ app' = [app EXCEPT ![c] = onmessage(@, Head(inbox[c]))]
    /\ inbox' = [inbox EXCEPT ![c] = Tail(@)]
    /\ syncDue' = IF FrameType(Head(inbox[c])) = "sync-state" THEN syncDue \ {c}
                  ELSE syncDue
    /\ UNCHANGED <<brokerVars, clientVars, mixerVars, audioVars, dbVars, portVars>>

\* the page of c goes away: websocketHandler.close
RoomClose(c) ==
    /\ wsOpen[c]
    /\ LET b == close(Broker, c) IN
       /\ wsData' = b.data
       /\ wsTopics' = [b.topics EXCEPT ![c] = {}]
       /\ roomConnections' = b.reg
       /\ sent' = b.out
    /\ wsOpen' = [wsOpen EXCEPT ![c] = FALSE]
    /\ inbox' = [inbox EXCEPT ![c] = <<>>]
    /\ app' = [app EXCEPT ![c] = App0(FALSE)]
    /\ syncDue' = IF \E d \in Conns \ {c} : IsRenderer(d) THEN syncDue \ {c} ELSE {}
    /\ ev' = [op |-> "close", conn |-> c, raw |-> NoFrame]
    /\ UNCHANGED <<quietMs, clientVars, mixerVars, audioVars, dbVars, portVars>>

RoomNext ==
    \/ \E c \in Conns, mobile \in BOOLEAN : RoomOpen(c, mobile)
    \/ \E c \in Conns, tempo \in Tempos, mappings \in PadMappings : RoomEdit(c, tempo, mappings)
    \/ \E c \in Conns : RoomHeartbeat(c)
    \/ \E c \in Conns : RoomDeliver(c)
    \/ \E c \in Conns : RoomClose(c)

---------------------------------------------------------------------------
(* public/audio-worklet.js: MixerProcessor.  A handler works on a record   *)
(* m = [voices, samples, attackIncrement, releaseIncrement,                *)
(* envelopeConfigured].  The envelope level is counted in units of         *)
(* 1/EnvOne; an output sample is [sum, tanh]: the accumulated value in     *)
(* the same units and how many times Math.tanh was applied to it.          *)

MAX_POLYPHONY == 2
ATTACK_MS == 2
RELEASE_MS == 3
BlockSize == 2

\* the sample rate of the audio device, in frames per second
sampleRate == 1000

attackSamples == (ATTACK_MS * sampleRate) \div 1000
releaseSamples == (RELEASE_MS * sampleRate) \div 1000
EnvOne == attackSamples * releaseSamples

VoiceIds == 1..MAX_POLYPHONY
SoundIds == {"a", "b"}
NoSound == "null"

\* the voice the constructor pushes
Voice0 == [active |-> FALSE, soundId |-> NoSound, position |-> 0, state |-> "idle",
           envLevel |-> 0, releaseStart |-> 0]

\* the voice triggerVoice starts
Started(soundId) == [active |-> TRUE, soundId |-> soundId, position |-> 0,
                     state |-> "attack", envLevel |-> 0, releaseStart |-> 0]

NoSamples == [id \in {} |-> 0]

\* decoded PCM a load-sample message carries: sound "a" is a stereo sample
\* of three frames, sound "b" an empty one
EmptySample == [left |-> <<>>, right |-> <<>>, length |-> 0]
StereoSample == [left |-> <<2, 4, 2>>, right |-> <<1, 1, 1>>, length |-> 3]
Decoded(soundId) == IF soundId = "a" THEN StereoSample ELSE EmptySample

Mixer == [voices |-> voices, samples |-> samples, attackIncrement |-> attackIncrement,
          releaseIncrement |-> releaseIncrement, envelopeConfigured |-> envelopeConfigured]

\* Map.set
MapSet(map, k, v) == [x \in DOMAIN map \cup {k} |-> IF x = k THEN v ELSE map[x]]
\* Map.delete
MapDelete(map, k) == [x \in DOMAIN map \ {k} |-> map[x]]

\* type "load-sample"
loadSample(m, soundId, smp) == [m EXCEPT !.samples = MapSet(@, soundId, smp)]

\* unload-sample dropping every entry of the store
unloadSample_clearsAll(m, soundId) == [m EXCEPT !.samples = NoSamples]

\* type "unload-sample"
unloadSample(m, soundId) == [m EXCEPT !.samples = MapDelete(@, soundId)]

\* type "stop-all"
stopAll(m) ==
    [m EXCEPT !.voices = [i \in VoiceIds |->
        IF m.voices[i].active
        THEN [m.voices[i] EXCEPT !.state = "release", !.releaseStart = m.voices[i].position]
        ELSE m.voices[i]]]

\* a first loop that keeps scanning and ends on the last voice that is not active
RECURSIVE FirstIdle_last(_, _)
FirstIdle_last(vs, i) ==
    IF i > MAX_POLYPHONY THEN 0
    ELSE LET later == FirstIdle_last(vs, i + 1) IN
         IF later # 0 THEN later
         ELSE IF ~vs[i].active THEN i ELSE 0

\* the first loop of triggerVoice: the first voice that is not active, 0 for null
RECURSIVE FirstIdle(_, _)
FirstIdle(vs, i) ==
    IF i > MAX_POLYPHONY THEN 0
    ELSE IF ~vs[i].active THEN i
    ELSE FirstIdle(vs, i + 1)

\* a second loop that compares with >=, so that the last of equal cursors wins
RECURSIVE Oldest_lastWins(_, _, _, _)
Oldest_lastWins(vs, i, voice, oldestPosition) ==
    IF i > MAX_POLYPHONY THEN voice
    ELSE IF vs[i].position >= oldestPosition
    THEN Oldest_lastWins(vs, i + 1, i, vs[i].position)
    ELSE Oldest_lastWins(vs, i + 1, voice, oldestPosition)

\* the second loop of triggerVoice
RECURSIVE Oldest(_, _, _, _)
Oldest(vs, i, voice, oldestPosition) ==
    IF i > MAX_POLYPHONY THEN voice
    ELSE IF vs[i].position > oldestPosition
    THEN Oldest(vs, i + 1, i, vs[i].position)
    ELSE Oldest(vs, i + 1, voice, oldestPosition)

\* triggerVoice that gives up when no voice is idle
triggerVoice_noSteal(m, soundId) ==
    IF soundId \notin DOMAIN m.samples THEN m
    ELSE LET idle == FirstIdle(m.voices, 1)
         IN IF idle # 0 THEN [m EXCEPT !.voices[idle] = Started(soundId)] ELSE m

triggerVoice(m, soundId) ==
    IF soundId \notin DOMAIN m.samples THEN m
    ELSE LET idle == FirstIdle(m.voices, 1)
             voice == IF idle # 0 THEN idle ELSE Oldest(m.voices, 1, 0, -1)
         IN [m EXCEPT !.voices[voice] = Started(soundId)]

\* configureEnvelope that leaves the release increment at 0
configureEnvelope_noRelease(m) ==
    [m EXCEPT !.attackIncrement = EnvOne \div attackSamples,
              !.envelopeConfigured = TRUE]

configureEnvelope(m) ==
    [m EXCEPT !.attackIncrement = EnvOne \div attackSamples,
              !.releaseIncrement = EnvOne \div releaseSamples,
              !.envelopeConfigured = TRUE]

Zero == [sum |-> 0, tanh |-> 0]
\* Math.tanh: tanh(0) is 0
Tanh(x) == IF x.sum = 0 THEN x ELSE [x EXCEPT !.tanh = @ + 1]
\* outputX[i] += value
Add(buf, ch, i, value) == [buf EXCEPT ![ch][i].sum = @ + value]

\* the frame loop's body with a release that is not floored at 0
mixFrame_noFloor(m, v, smp, buf, i, outL, outR) ==
    LET v1 == IF v.position >= smp.length /\ v.state # "release"
              THEN [v EXCEPT !.state = "release", !.releaseStart = v.position]
              ELSE v
        up == v1.envLevel + m.attackIncrement
        down == v1.envLevel - m.releaseIncrement
        v2 == CASE v1.state = "attack" ->
                     IF up >= EnvOne
                     THEN [v1 EXCEPT !.envLevel = EnvOne, !.state = "sustain"]
                     ELSE [v1 EXCEPT !.envLevel = up]
                [] v1.state = "release" ->
                     IF down <= 0
                     THEN [v1 EXCEPT !.envLevel = down, !.active = FALSE, !.state = "idle"]
                     ELSE [v1 EXCEPT !.envLevel = down]
                [] OTHER -> v1
        stop == v1.state = "release" /\ down <= 0
        pos == v2.position
        buf1 == IF pos < smp.length
                THEN Add(Add(buf, outL, i, smp.left[pos + 1] * v2.envLevel),
                         outR, i, smp.right[pos + 1] * v2.envLevel)
                ELSE buf
    IN IF stop THEN [v |-> v2, buf |-> buf, break |-> TRUE]
       ELSE [v |-> [v2 EXCEPT !.position = @ + 1], buf |-> buf1, break |-> FALSE]

\* the frame loop's body with the end of the sample found one frame late
mixFrame_lateFinish(m, v, smp, buf, i, outL, outR) ==
    LET v1 == IF v.position > smp.length /\ v.state # "release"
              THEN [v EXCEPT !.state = "release", !.releaseStart = v.position]
              ELSE v
        up == v1.envLevel + m.attackIncrement
        down == v1.envLevel - m.releaseIncrement
        v2 == CASE v1.state = "attack" ->
                     IF up >= EnvOne
                     THEN [v1 EXCEPT !.envLevel = EnvOne, !.state = "sustain"]
                     ELSE [v1 EXCEPT !.envLevel = up]
                [] v1.state = "release" ->
                     IF down <= 0
                     THEN [v1 EXCEPT !.envLevel = 0, !.active = FALSE, !.state = "idle"]
                     ELSE [v1 EXCEPT !.envLevel = down]
                [] OTHER -> v1
        stop == v1.state = "release" /\ down <= 0
        pos == v2.position
        buf1 == IF pos < smp.length
                THEN Add(Add(buf, outL, i, smp.left[pos + 1] * v2.envLevel),
                         outR, i, smp.right[pos + 1] * v2.envLevel)
                ELSE buf
    IN IF stop THEN [v |-> v2, buf |-> buf, break |-> TRUE]
       ELSE [v |-> [v2 EXCEPT !.position = @ + 1], buf |-> buf1, break |-> FALSE]

\* one pass of the frame loop for voice v at frame i: [v, buf, break]
mixFrame(m, v, smp, buf, i, outL, outR) ==
    LET v1 == IF v.position >= smp.length /\ v.state # "release"
              THEN [v EXCEPT !.state = "release", !.releaseStart = v.position]
              ELSE v
        up == v1.envLevel + m.attackIncrement
        down == v1.envLevel - m.releaseIncrement
        v2 == CASE v1.state = "attack" ->
                     IF up >= EnvOne
                     THEN [v1 EXCEPT !.envLevel = EnvOne, !.state = "sustain"]
                     ELSE [v1 EXCEPT !.envLevel = up]
                [] v1.state = "release" ->
                     IF down <= 0
                     THEN [v1 EXCEPT !.envLevel = 0, !.active = FALSE, !.state = "idle"]
                     ELSE [v1 EXCEPT !.envLevel = down]
                [] OTHER -> v1
        stop == v1.state = "release" /\ down <= 0
        pos == v2.position
        buf1 == IF pos < smp.length
                THEN Add(Add(buf, outL, i, smp.left[pos + 1] * v2.envLevel),
                         outR, i, smp.right[pos + 1] * v2.envLevel)
                ELSE buf
    IN IF stop THEN [v |-> v2, buf |-> buf, break |-> TRUE]
       ELSE [v |-> [v2 EXCEPT !.position = @ + 1], buf |-> buf1, break |-> FALSE]

\* the frame loop for voice v, from frame i on: [v, buf, trace]
RECURSIVE mixVoice(_, _, _, _, _, _, _, _)
mixVoice(m, v, smp, buf, i, outL, outR, trace) ==
    IF i > BlockSize THEN [v |-> v, buf |-> buf, trace |-> trace]
    ELSE LET f == mixFrame(m, v, smp, buf, i, outL, outR) IN
         IF f.break THEN [v |-> f.v, buf |-> f.buf, trace |-> Append(trace, f.v)]
         ELSE mixVoice(m, f.v, smp, f.buf, i + 1, outL, outR, Append(trace, f.v))

\* the voice loop of process, from voice k on: [voices, buf, frames]
RECURSIVE mixVoices(_, _, _, _, _, _, _)
mixVoices(m, k, vs, buf, trs, outL, outR) ==
    IF k > MAX_POLYPHONY THEN [voices |-> vs, buf |-> buf, frames |-> trs]
    ELSE IF ~vs[k].active THEN mixVoices(m, k + 1, vs, buf, trs, outL, outR)
    ELSE IF vs[k].soundId \notin DOMAIN m.samples
    THEN mixVoices(m, k + 1, [vs EXCEPT ![k].active = FALSE], buf, trs, outL, outR)
    ELSE LET r == mixVoice(m, vs[k], m.samples[vs[k].soundId], buf, 1, outL, outR, <<>>)
         IN mixVoices(m, k + 1, [vs EXCEPT ![k] = r.v], r.buf,
                      [trs EXCEPT ![k] = r.trace], outL, outR)

\* the soft clip loop, from frame i on
RECURSIVE softClip(_, _, _, _)
softClip(buf, i, outL, outR) ==
    IF i > BlockSize THEN buf
    ELSE LET b1 == [buf EXCEPT ![outL][i] = Tanh(@)]
             b2 == [b1 EXCEPT ![outR][i] = Tanh(@)]
         IN softClip(b2, i + 1, outL, outR)

NoFrames == [k \in VoiceIds |-> <<>>]

\* process with outputs[0] of chans channels (0: no output): [m, output, frames]
process(m, chans) ==
    LET m1 == IF ~m.envelopeConfigured THEN configureEnvelope(m) ELSE m IN
    IF chans = 0 THEN [m |-> m1, output |-> <<>>, frames |-> NoFrames]
    ELSE LET outL == 1
             outR == IF chans >= 2 THEN 2 ELSE 1
             cleared == [c \in 1..chans |-> [i \in 1..BlockSize |-> Zero]]
             r == mixVoices(m1, 1, m1.voices, cleared, NoFrames, outL, outR)
         IN [m |-> [m1 EXCEPT !.voices = r.voices],
             output |-> softClip(r.buf, 1, outL, outR),
             frames |-> r.frames]

---------------------------------------------------------------------------
(* mixer events *)

MixerCommit(m) ==
    /\ voices' = m.voices
    /\ samples' = m.samples
    /\ attackIncrement' = m.attackIncrement
    /\ releaseIncrement' = m.releaseIncrement
    /\ envelopeConfigured' = m.envelopeConfigured

Others == <<brokerVars, clientVars, roomVars, audioVars, dbVars, portVars>>

\* port.onmessage with type "load-sample"
LoadSample(soundId) ==
    /\ MixerCommit(loadSample(Mixer, soundId, Decoded(soundId)))
    /\ mev' = [op |-> "load-sample", soundId |-> soundId, chans |-> 0, idle |-> 0]
    /\ output' = <<>>
    /\ voiceFrames' = NoFrames
    /\ UNCHANGED Others

\* port.onmessage with type "unload-sample"
UnloadSample(soundId) ==
    /\ MixerCommit(unloadSample(Mixer, soundId))
    /\ mev' = [op |-> "unload-sample", soundId |-> soundId, chans |-> 0, idle |-> 0]
    /\ output' = <<>>
    /\ voiceFrames' = NoFrames
    /\ UNCHANGED Others

\* port.onmessage with type "trigger"
Trigger(soundId) ==
    /\ MixerCommit(triggerVoice(Mixer, soundId))
    /\ mev' = [op |-> "trigger", soundId |-> soundId, chans |-> 0,
               idle |-> FirstIdle(voices, 1)]
    /\ output' = <<>>
    /\ voiceFrames' = NoFrames
    /\ UNCHANGED Others

\* port.onmessage with type "stop-all"
StopAll ==
    /\ MixerCommit(stopAll(Mixer))
    /\ mev' = [op |-> "stop-all", soundId |-> NoSound, chans |-> 0, idle |-> 0]
    /\ output' = <<>>
    /\ voiceFrames' = NoFrames
    /\ UNCHANGED Others

\* the host calls process with an output of chans channels
Process(chans) ==
    /\ LET r == process(Mixer, chans) IN
       /\ MixerCommit(r.m)
       /\ output' = r.output
       /\ voiceFrames' = r.frames
    /\ mev' = [op |-> "process", soundId |-> NoSound, chans |-> chans, idle |-> 0]
    /\ UNCHANGED Others

MixerNext ==
    \/ \E soundId \in SoundIds : LoadSample(soundId)
    \/ \E soundId \in SoundIds : UnloadSample(soundId)
    \/ \E soundId \in SoundIds : Trigger(soundId)
    \/ StopAll
    \/ \E chans \in 0..2 : Process(chans)

---------------------------------------------------------------------------
(* lib/audio-engine.ts, hooks/useAudioEngine.ts, context/RoomContext.tsx   *)
(* and the pad handlers of routes/room._index.tsx: the audio host bridge   *)
(* of one page.  A handler works on a record                               *)
(* a = [engine, hook, audioInitializedRef, posted, threw].  A closure      *)
(* h = [isMobile, audioState] is what the callbacks of one render see.     *)
(***************************************************************************)

AudioEngine0 == [state |-> "uninitialized", initPromise |-> "null", context |-> FALSE,
                 workletNode |-> FALSE, loadedSamples |-> {}]

Hook0 == [state |-> "uninitialized", initCalledRef |-> FALSE]

NoClosure == [isMobile |-> FALSE, audioState |-> "none"]

Page0 == [isMobile |-> FALSE, audioInitializedRef |-> FALSE, socket |-> "current",
          prev |-> NoClosure, zombie |-> NoClosure]

PadIndexes == {"p0", "p1"}

LoadSampleMsg(soundId) == [type |-> "load-sample", soundId |-> soundId]
TriggerMsg(soundId) == [type |-> "trigger", soundId |-> soundId]
UnloadSampleMsg(soundId) == [type |-> "unload-sample", soundId |-> soundId]
StopAllMsg == [type |-> "stop-all", soundId |-> NoSound]

Audio == [engine |-> engine, hook |-> hook, audioInitializedRef |-> page.audioInitializedRef,
          posted |-> <<>>, threw |-> "none"]

\* AudioEngine.init, up to its await
init(a) ==
    IF a.engine.initPromise # "null" THEN a
    ELSE IF a.engine.state = "ready" THEN a
    ELSE [a EXCEPT !.engine.state = "initializing", !.engine.initPromise = "pending",
                   !.engine.context = TRUE]

\* the promise of doInit settles and AudioEngine.init resumes
doInit(a, ok) ==
    IF ok THEN [a EXCEPT !.engine.workletNode = TRUE, !.engine.initPromise = "fulfilled",
                         !.engine.state = "ready"]
    ELSE [a EXCEPT !.engine.initPromise = "rejected", !.engine.state = "error"]

\* initAudio after its await, once the promise init returned has settled
initAudioResumes(a) ==
    IF a.engine.initPromise = "fulfilled" THEN [a EXCEPT !.hook.state = "ready"]
    ELSE IF a.engine.initPromise = "rejected"
         THEN [a EXCEPT !.hook.state = "error", !.hook.initCalledRef = FALSE]
    ELSE a

\* useAudioEngine's initAudio of a render with the given enabled
initAudio(a, enabled) ==
    IF ~enabled \/ a.hook.initCalledRef THEN a
    ELSE initAudioResumes(init([a EXCEPT !.hook.initCalledRef = TRUE,
                                         !.hook.state = "initializing"]))

\* AudioEngine.loadSound after its awaits; fetched: the fetch and the
\* decoding succeeded
loadSoundResumes(a, soundId, fetched) ==
    IF ~fetched THEN [a EXCEPT !.threw = "Failed to fetch sound"]
    ELSE [a EXCEPT !.posted = Append(@, LoadSampleMsg(soundId)),
                   !.engine.loadedSamples = @ \cup {soundId}]

\* AudioEngine.loadSound up to its first await: "throws", "skips" or "fetches"
loadSoundStarts(a, soundId) ==
    IF ~a.engine.context \/ ~a.engine.workletNode THEN "throws"
    ELSE IF soundId \in a.engine.loadedSamples THEN "skips"
    ELSE "fetches"

\* AudioEngine.loadSound with nothing else running during its awaits
loadSound(a, soundId, fetched) ==
    IF loadSoundStarts(a, soundId) = "throws"
    THEN [a EXCEPT !.threw = "AudioEngine not initialized"]
    ELSE IF loadSoundStarts(a, soundId) = "skips" THEN a
    ELSE loadSoundResumes(a, soundId, fetched)

\* unloadSound that leaves the sound in the loaded set
unloadSound_keepsLoaded(a, soundId) ==
    IF ~a.engine.workletNode THEN a
    ELSE [a EXCEPT !.posted = Append(@, UnloadSampleMsg(soundId))]

\* AudioEngine.unloadSound
unloadSound(a, soundId) ==
    IF ~a.engine.workletNode THEN a
    ELSE [a EXCEPT !.posted = Append(@, UnloadSampleMsg(soundId)),
                   !.engine.loadedSamples = @ \ {soundId}]

\* AudioEngine.trigger
trigger(a, soundId) ==
    IF ~a.engine.workletNode THEN a
    ELSE IF soundId \notin a.engine.loadedSamples THEN a
    ELSE [a EXCEPT !.posted = Append(@, TriggerMsg(soundId))]

\* AudioEngine.stopAll
engineStopAll(a) ==
    IF a.engine.workletNode THEN [a EXCEPT !.posted = Append(@, StopAllMsg)] ELSE a

\* trigger without the test of enabled
hookTrigger_alwaysEnabled(a, enabled, soundId) == trigger(a, soundId)

\* useAudioEngine's trigger of a render with the given enabled
hookTrigger(a, enabled, soundId) == IF ~enabled THEN a ELSE trigger(a, soundId)

\* RoomProvider's triggerSound of the render of closure h
triggerSound(a, h, soundId) ==
    IF h.audioState = "ready" THEN hookTrigger(a, ~h.isMobile, soundId) ELSE a

\* the part handlePadHit and handleLocalPadTrigger share: auto-init, then trigger
playPad(a, h, padIndex) ==
    IF padIndex \notin DOMAIN Mappings0 THEN a
    ELSE LET b == IF ~a.audioInitializedRef /\ h.audioState = "uninitialized"
                  THEN initAudio([a EXCEPT !.audioInitializedRef = TRUE], ~h.isMobile)
                  ELSE a
         IN triggerSound(b, h, Mappings0[padIndex].v)

handlePadHit(a, h, padIndex) == IF h.isMobile THEN a ELSE playPad(a, h, padIndex)

handleLocalPadTrigger(a, h, padIndex) == playPad(a, h, padIndex)

---------------------------------------------------------------------------
(* audio events *)

\* the closure of the current render
Closure == [isMobile |-> page.isMobile, audioState |-> hook.state]

\* the closure whose socket is wsRef.current: that of the current render, or
\* the one page.zombie that the reconnect timer of a closed socket brought back
Listening == IF page.socket = "zombie" THEN page.zombie ELSE Closure

\* a re-render with a new closure runs the effect of useRoomSocket again:
\* wsRef.current is closed (page.prev: the closure its onclose reconnects
\* with) and connect of the new closure opens a socket
AudioCommit(a, mobile) ==
    /\ engine' = a.engine
    /\ hook' = a.hook
    /\ posted' = a.posted
    /\ page' = IF mobile # page.isMobile \/ a.hook.state # hook.state
               THEN [page EXCEPT !.isMobile = mobile,
                                 !.audioInitializedRef = a.audioInitializedRef,
                                 !.socket = "current", !.prev = Listening]
               ELSE [page EXCEPT !.audioInitializedRef = a.audioInitializedRef]

AudioOthers == <<brokerVars, clientVars, roomVars, mixerVars, dbVars, portVars>>

\* ws.onmessage of the socket of closure h takes a pad-hit frame
PadHitArrives(h, padIndex) ==
    /\ LET a == handlePadHit(Audio, h, padIndex) IN
       /\ AudioCommit(a, page.isMobile)
       /\ aev' = [op |-> "pad-hit", role |-> RoleOf(h), padIndex |-> padIndex,
                  threw |-> a.threw]
    /\ UNCHANGED AudioOthers

\* a pad of the DAW view (local) or of the controller view is tapped
PadTap(local, padIndex) ==
    /\ LET a == IF local THEN handleLocalPadTrigger(Audio, Closure, padIndex) ELSE Audio IN
       /\ AudioCommit(a, page.isMobile)
       /\ aev' = [op |-> IF local THEN "pad-click" ELSE "send-pad-hit", role |-> RoleOf(Closure),
                  padIndex |-> padIndex, threw |-> a.threw]
    /\ UNCHANGED AudioOthers

\* the Enable Audio button (button), or another consumer of the room
\* context, calls initAudio
InitAudio(button) ==
    /\ button => ~page.isMobile /\ hook.state = "uninitialized"
    /\ LET a == initAudio([Audio EXCEPT !.audioInitializedRef = @ \/ button], ~page.isMobile) IN
       /\ AudioCommit(a, page.isMobile)
       /\ aev' = [op |-> "init", role |-> RoleOf(Closure), padIndex |-> "none",
                  threw |-> a.threw]
    /\ UNCHANGED AudioOthers

\* the initialization that is under way succeeds or fails
DoInitSettles(ok) ==
    /\ engine.initPromise = "pending"
    /\ LET a == initAudioResumes(doInit(Audio, ok)) IN
       /\ AudioCommit(a, page.isMobile)
       /\ aev' = [op |-> "settle", role |-> RoleOf(Closure), padIndex |-> "none",
                  threw |-> a.threw]
    /\ UNCHANGED AudioOthers

\* a caller holding getAudioEngine() calls loadSound
LoadSound(soundId, fetched) ==
    /\ LET a == loadSound(Audio, soundId, fetched) IN
       /\ AudioCommit(a, page.isMobile)
       /\ aev' = [op |-> "loadSound", role |-> RoleOf(Closure), padIndex |-> "none",
                  threw |-> a.threw]
    /\ UNCHANGED AudioOthers

\* a caller holding getAudioEngine() calls trigger
EngineTrigger(soundId) ==
    /\ LET a == trigger(Audio, soundId) IN
       /\ AudioCommit(a, page.isMobile)
       /\ aev' = [op |-> "trigger", role |-> RoleOf(Closure), padIndex |-> "none",
                  threw |-> a.threw]
    /\ UNCHANGED AudioOthers

\* the window is resized across 768 px: setIsMobile, and the cleanup of
\* useAudioEngine's effect runs with the enabled of the render before
Resize(mobile) ==
    /\ mobile # page.isMobile
    /\ LET a == IF ~page.isMobile THEN engineStopAll(Audio) ELSE Audio IN
       /\ AudioCommit(a, mobile)
       /\ aev' = [op |-> "resize", role |-> RoleOf(Closure), padIndex |-> "none",
                  threw |-> a.threw]
    /\ UNCHANGED AudioOthers

\* the reconnect timer of a closed socket runs connect of its closure, which
\* closes wsRef.current and opens a socket with the handlers of that closure
ZombieReconnects ==
    /\ page.prev # NoClosure
    /\ page' = [page EXCEPT !.zombie = page.prev, !.socket = "zombie", !.prev = Listening]
    /\ posted' = <<>>
    /\ aev' = [op |-> "reconnect", role |-> RoleOf(page.prev), padIndex |-> "none",
               threw |-> "none"]
    /\ UNCHANGED <<engine, hook, AudioOthers>>

AudioNext ==
    \/ \E padIndex \in PadIndexes : PadHitArrives(Listening, padIndex)
    \/ \E local \in BOOLEAN, padIndex \in PadIndexes : PadTap(local, padIndex)
    \/ \E button \in BOOLEAN : InitAudio(button)
    \/ \E ok \in BOOLEAN : DoInitSettles(ok)
    \/ \E soundId \in SoundIds, fetched \in BOOLEAN : LoadSound(soundId, fetched)
    \/ \E soundId \in SoundIds : EngineTrigger(soundId)
    \/ \E mobile \in BOOLEAN : Resize(mobile)
    \/ ZombieReconnects

---------------------------------------------------------------------------
(* db/rooms.ts and the routes api/rooms.$roomId.save.tsx and               *)
(* api/rooms.$roomId.pads.$padIndex.tsx: the rooms table and the requests  *)
(* the server is handling.  A request is at an await of its handler:       *)
(* between two awaits other requests, the cleanup job and the clock run.   *)
(* Dates are counted in units of 12 hours.                                 *)
(***************************************************************************)

ROOM_EXPIRY_MS == 2
MaxNow == 4

Requests == {"q1", "q2"}
PadKeys == {"0", "5"}
NullDate == -1
NullText == [null |-> TRUE]
NoRoom == [id |-> "null"]
NoMappings == [p \in {} |-> NoSound]
Idle == [pc |-> "idle", padIndex |-> "0", soundId |-> NoSound, room |-> NoRoom]

\* JSON.stringify of a mappings object
Text(mappings) == [null |-> FALSE, json |-> mappings]

createRoom(id, date) ==
    [id |-> id, padMappings |-> NullText, saved |-> FALSE, expiresAt |-> date + ROOM_EXPIRY_MS]

isRoomExpired(room, date) ==
    IF room.saved THEN FALSE
    ELSE IF room.expiresAt = NullDate THEN FALSE
    ELSE room.expiresAt < date

getRoom(table, id, date) ==
    LET result == {r \in table : r.id = id} IN
    IF result = {} THEN NoRoom
    ELSE LET room == CHOOSE r \in result : TRUE IN
         IF isRoomExpired(room, date) THEN NoRoom ELSE room

\* saveRoom after its getRoom: the update, which changes the rows that match
saveRoom(table, id) ==
    {IF r.id = id THEN [r EXCEPT !.saved = TRUE, !.expiresAt = NullDate] ELSE r : r \in table}

\* updatePadMapping after its getRoom returned room: the mappings it builds
padMapping(room, padIndex, soundId) ==
    LET mappings == IF room.padMappings.null THEN NoMappings ELSE room.padMappings.json IN
    IF soundId = NoSound
    THEN [p \in DOMAIN mappings \ {padIndex} |-> mappings[p]]
    ELSE [p \in DOMAIN mappings \cup {padIndex} |->
             IF p = padIndex THEN soundId ELSE mappings[p]]

\* updatePadMapping after its getRoom: the update
updatePadMapping(table, room, padIndex, soundId) ==
    {IF r.id = room.id THEN [r EXCEPT !.padMappings = Text(padMapping(room, padIndex, soundId))]
     ELSE r : r \in table}

deleteExpiredRooms(table, date) ==
    {r \in table : ~(r.saved = FALSE /\ r.expiresAt # NullDate /\ r.expiresAt < date)}

\* the pad mappings the table holds for the room
Stored == IF rooms = {} THEN NoMappings
          ELSE padMapping(CHOOSE r \in rooms : TRUE, "0", NoSound)

---------------------------------------------------------------------------
(* server events *)

DbOthers == <<brokerVars, clientVars, roomVars, mixerVars, audioVars, portVars>>

Respond(q, op, status) ==
    dev' = [op |-> op, req |-> q, status |-> status, padIndex |-> reqs[q].padIndex]

\* the clock passes a 12-hour mark
Tick ==
    /\ now < MaxNow
    /\ now' = now + 1
    /\ dev' = [op |-> "tick", req |-> "q1", status |-> 0, padIndex |-> "0"]
    /\ UNCHANGED <<rooms, reqs, saveReturned, DbOthers>>

\* the cleanup job
DeleteExpiredRooms ==
    /\ rooms' = deleteExpiredRooms(rooms, now)
    /\ dev' = [op |-> "cleanup", req |-> "q1", status |-> 0, padIndex |-> "0"]
    /\ UNCHANGED <<now, reqs, saveReturned, DbOthers>>

\* POST /api/rooms/:roomId/save, up to the action's getRoom
SaveCheck(q) ==
    /\ reqs[q].pc = "idle"
    /\ LET existingRoom == getRoom(rooms, Room, now) IN
       IF existingRoom = NoRoom
       THEN /\ Respond(q, "save", 404)
            /\ UNCHANGED <<reqs, saveReturned>>
       ELSE IF existingRoom.saved
       THEN /\ Respond(q, "save", 200)
            /\ saveReturned' = TRUE
            /\ UNCHANGED reqs
       ELSE /\ Respond(q, "save", 0)
            /\ reqs' = [reqs EXCEPT ![q].pc = "saveRoom"]
            /\ UNCHANGED saveReturned
    /\ UNCHANGED <<rooms, now, DbOthers>>

\* saveRoom, up to its getRoom
SaveGet(q) ==
    /\ reqs[q].pc = "saveRoom"
    /\ LET room == getRoom(rooms, Room, now) IN
       IF room = NoRoom
       THEN /\ Respond(q, "save", 500)
            /\ reqs' = [reqs EXCEPT ![q] = Idle]
       ELSE /\ Respond(q, "save", 0)
            /\ reqs' = [reqs EXCEPT ![q].pc = "update", ![q].room = room]
    /\ UNCHANGED <<rooms, now, saveReturned, DbOthers>>

\* saveRoom's update, and the action's response
SaveUpdate(q) ==
    /\ reqs[q].pc = "update"
    /\ rooms' = saveRoom(rooms, Room)
    /\ Respond(q, "save", 200)
    /\ saveReturned' = TRUE
    /\ reqs' = [reqs EXCEPT ![q] = Idle]
    /\ UNCHANGED <<now, DbOthers>>

\* PUT /api/rooms/:roomId/pads/:padIndex, up to updatePadMapping's getRoom
PadGet(q, padIndex, soundId) ==
    /\ reqs[q].pc = "idle"
    /\ LET room == getRoom(rooms, Room, now) IN
       IF room = NoRoom
       THEN /\ dev' = [op |-> "pad", req |-> q, status |-> 404, padIndex |-> padIndex]
            /\ UNCHANGED reqs
       ELSE /\ dev' = [op |-> "pad", req |-> q, status |-> 0, padIndex |-> padIndex]
            /\ reqs' = [reqs EXCEPT ![q] = [pc |-> "updatePadMapping", padIndex |-> padIndex,
                                            soundId |-> soundId, room |-> room]]
    /\ UNCHANGED <<rooms, now, saveReturned, DbOthers>>

\* updatePadMapping's update, and the action's response
PadUpdate(q) ==
    /\ reqs[q].pc = "updatePadMapping"
    /\ rooms' = updatePadMapping(rooms, reqs[q].room, reqs[q].padIndex, reqs[q].soundId)
    /\ Respond(q, "pad", 200)
    /\ reqs' = [reqs EXCEPT ![q] = Idle]
    /\ UNCHANGED <<now, saveReturned, DbOthers>>

DbNext ==
    \/ Tick
    \/ DeleteExpiredRooms
    \/ \E q \in Requests : SaveCheck(q)
    \/ \E q \in Requests : SaveGet(q)
    \/ \E q \in Requests : SaveUpdate(q)
    \/ \E q \in Requests, padIndex \in PadKeys, soundId \in {"a", NoSound} :
          PadGet(q, padIndex, soundId)
    \/ \E q \in Requests : PadUpdate(q)

---------------------------------------------------------------------------
(***************************************************************************)
(* The message port between lib/audio-engine.ts and the mixer of            *)
(* public/audio-worklet.js: postMessage appends, the audio thread takes     *)
(* the messages in the order they were posted.                              *)
(***************************************************************************)

MaxPort == 2
MaxLoads == 1

\* port.onmessage of the mixer
portOnmessage(m, msg) ==
    IF msg.type = "load-sample" THEN loadSample(m, msg.soundId, Decoded(msg.soundId))
    ELSE IF msg.type = "trigger" THEN triggerVoice(m, msg.soundId)
    ELSE IF msg.type = "unload-sample" THEN unloadSample(m, msg.soundId)
    ELSE IF msg.type = "stop-all" THEN stopAll(m)
    ELSE m

PortOthers == <<brokerVars, clientVars, roomVars, dbVars>>

\* what a call on the bridge leaves: its engine, and its messages on the port
PortCommit(a) ==
    /\ Len(port) + Len(a.posted) <= MaxPort
    /\ engine' = a.engine
    /\ posted' = a.posted
    /\ port' = port \o a.posted
    /\ UNCHANGED <<hook, page, aev, mixerVars, pev, PortOthers>>

\* AudioEngine.init is called; it waits for doInit
EngineInit ==
    /\ engine.initPromise = "null"
    /\ PortCommit(init(Audio))
    /\ UNCHANGED loads

\* doInit settles
EngineSettles(ok) ==
    /\ engine.initPromise = "pending"
    /\ PortCommit(doInit(Audio, ok))
    /\ UNCHANGED loads

\* loadSound is called and, unless it throws or skips, waits for its fetch
LoadSoundCalled(soundId) ==
    /\ loadSoundStarts(Audio, soundId) = "fetches"
    /\ loads[soundId] < MaxLoads
    /\ loads' = [loads EXCEPT ![soundId] = @ + 1]
    /\ UNCHANGED <<audioVars, mixerVars, port, pev, PortOthers>>

\* a loadSound call that was waiting goes on
LoadSoundResumes(soundId, fetched) ==
    /\ loads[soundId] > 0
    /\ loads' = [loads EXCEPT ![soundId] = @ - 1]
    /\ PortCommit(loadSoundResumes(Audio, soundId, fetched))

\* unloadSound is called
UnloadSound(soundId) ==
    /\ engine.workletNode
    /\ PortCommit(unloadSound(Audio, soundId))
    /\ UNCHANGED loads

\* trigger is called
PortTrigger(soundId) ==
    /\ engine.workletNode
    /\ PortCommit(trigger(Audio, soundId))
    /\ UNCHANGED loads

\* the audio thread takes the message at the head of the port
PortDeliver ==
    /\ port # <<>>
    /\ port' = Tail(port)
    /\ MixerCommit(portOnmessage(Mixer, Head(port)))
    /\ pev' = [type |-> Head(port).type, soundId |-> Head(port).soundId,
               stored |-> Head(port).soundId \in DOMAIN samples]
    /\ UNCHANGED <<output, voiceFrames, mev, audioVars, loads, PortOthers>>

PortNext ==
    \/ EngineInit
    \/ \E ok \in BOOLEAN : EngineSettles(ok)
    \/ \E soundId \in SoundIds : LoadSoundCalled(soundId)
    \/ \E soundId \in SoundIds, fetched \in BOOLEAN : LoadSoundResumes(soundId, fetched)
    \/ \E soundId \in SoundIds : UnloadSound(soundId)
    \/ \E soundId \in SoundIds : PortTrigger(soundId)
    \/ PortDeliver

---------------------------------------------------------------------------
(* specifications *)

\* no connection at the broker; the client's refs as useRef and useState make them
Init ==
    /\ wsOpen = [c \in Conns |-> FALSE]
    /\ wsData = [c \in Conns |-> NullData]
    /\ wsTopics = [c \in Conns |-> {}]
    /\ roomConnections = NoRooms
    /\ quietMs = 0
    /\ ev = [op |-> "init", conn |-> "c1", raw |-> NoFrame]
    /\ sent = NothingSent
    /\ lifecycle = "init"
    /\ props = Props0
    /\ connectionState = "disconnected"
    /\ wsRef = 0
    /\ sockets = [s \in SockIds |-> FreeSocket]
    /\ reconnectTimeoutRef = 0
    /\ timers = [i \in TimerIds |-> FreeTimer]
    /\ heartbeatIntervalRef = FALSE
    /\ heartbeatTimers = 0
    /\ reconnectDelayRef = INITIAL_RECONNECT_DELAY
    /\ messageQueueRef = <<>>
    /\ cev = [op |-> "init", sock |-> 0, arg |-> NoMsg]
    /\ tx = <<>>
    /\ timeoutDelay = 0
    /\ inbox = [c \in Conns |-> <<>>]
    /\ app = [c \in Conns |-> App0(FALSE)]
    /\ syncDue = {}
    /\ voices = [i \in VoiceIds |-> Voice0]
    /\ samples = NoSamples
    /\ attackIncrement = 0
    /\ releaseIncrement = 0
    /\ envelopeConfigured = FALSE
    /\ output = <<>>
    /\ voiceFrames = NoFrames
    /\ mev = [op |-> "init", soundId |-> NoSound, chans |-> 0, idle |-> 0]
    /\ engine = AudioEngine0
    /\ hook = Hook0
    /\ page = Page0
    /\ posted = <<>>
    /\ aev = [op |-> "init", role |-> "daw", padIndex |-> "none", threw |-> "none"]
    /\ rooms = {createRoom(Room, 0)}
    /\ now = 0
    /\ reqs = [q \in Requests |-> Idle]
    /\ saveReturned = FALSE
    /\ dev = [op |-> "create", req |-> "q1", status |-> 0, padIndex |-> "0"]
    /\ port = <<>>
    /\ loads = [soundId \in SoundIds |-> 0]
    /\ pev = [type |-> "none", soundId |-> NoSound, stored |-> FALSE]

\* the broker and two connections sending frames at the codec's limits
SpecWire == Init /\ [][WireNext]_vars

\* the broker and the frames arriving at it
SpecBroker == Init /\ [][BrokerNext]_vars

\* one client transport and the events of its sockets and timers
SpecClient == Init /\ [][ClientNext]_vars

\* the mixer, the messages of its port and the host's process calls
SpecMixer == Init /\ [][MixerNext]_vars

\* the audio host bridge of one page, its callers and the page's pad handlers
SpecAudio == Init /\ [][AudioNext]_vars

\* the rooms table with one room just created, two requests at a time, the
\* cleanup job and the clock
SpecDb == Init /\ [][DbNext]_vars

\* the mixer with a host that keeps calling process with an output to fill
\* (a call with another number of channels than the last is always a step,
\* so that weak fairness of these calls is that they happen again and again)
SpecMixerLive ==
    /\ Init
    /\ [][MixerNext]_vars
    /\ []<><<mev'.op = "process" /\ mev'.chans >= 1>>_vars

\* the audio host bridge, its loadSound calls in flight, and the mixer taking
\* the messages of the port
SpecPort == Init /\ [][PortNext]_vars

\* the pages of one room; the event loop of a page dispatches every message
\* event that is waiting and runs the heartbeat interval
SpecRoom ==
    /\ Init
    /\ [][RoomNext]_vars
    /\ \A c \in Conns : WF_vars(RoomDeliver(c)) /\ WF_vars(RoomHeartbeat(c))

---------------------------------------------------------------------------
(* what the last broker event was *)

EvParsed == parseWSMessage(ev.raw)
EvIs(ty) == ev.op = "message" /\ ~IsNull(EvParsed) /\ EvParsed.type.v = ty
IsErrorFrame(f) == FrameType(f) = "error"
RoomsOf(c) == {r \in DOMAIN roomConnections : c \in roomConnections[r]}
OnlyTo(c, frames) == [NothingSent EXCEPT ![c] = frames]

---------------------------------------------------------------------------
(* claims about the broker *)

\* C1: every connection is a member of at most one room's registry set and
\* is subscribed to at most one room channel, in every reachable state.
C1_AtMostOneRoom ==
    \A c \in Conns :
        /\ Cardinality(RoomsOf(c)) <= 1
        /\ Cardinality(wsTopics[c]) <= 1

\* a connection has just joined r2 while another connection is in r1
C1_Witness ==
    /\ EvIs("join")
    /\ RoomsOf(ev.conn) = {"r2"}
    /\ wsTopics[ev.conn] = {"r2"}
    /\ \E d \in Conns \ {ev.conn} : RoomsOf(d) = {"r1"}

\* C2: a sync-state from a connection whose role is controller is answered
\* with one error frame to that connection and nothing else is sent; a
\* sync-state frame is only ever delivered when the sender's role is daw.
C2_RoleEnforcement ==
    /\ (EvIs("sync-state") /\ IsStr(wsData[ev.conn].role, "controller"))
         => /\ Len(sent[ev.conn]) = 1
            /\ IsErrorFrame(sent[ev.conn][1])
            /\ \A d \in Conns \ {ev.conn} : sent[d] = <<>>
    /\ \A d \in Conns :
         (\E i \in 1..Len(sent[d]) : FrameType(sent[d][i]) = "sync-state")
            => EvIs("sync-state") /\ IsStr(wsData[ev.conn].role, "daw")

\* a joined controller has sent sync-state while another connection is
\* subscribed to its room, and got "Only DAW can sync state"
C2_Witness ==
    /\ EvIs("sync-state")
    /\ wsData[ev.conn] = [roomId |-> Str("r1"), role |-> Str("controller")]
    /\ sent[ev.conn] = <<ErrorFrame("Only DAW can sync state")>>
    /\ \E d \in Conns \ {ev.conn} : "r1" \in wsTopics[d]

\* C5: a pad-hit from a connection joined to room R is delivered to every
\* connection subscribed to R, the sender included, and to no other.
C5_PadHitFanOut ==
    (EvIs("pad-hit") /\ Truthy(wsData[ev.conn].roomId))
       => \A d \in Conns :
            IF wsData[ev.conn].roomId.v \in wsTopics[d]
            THEN sent[d] = <<serializeWSMessage(EvParsed)>>
            ELSE sent[d] = <<>>

\* C6: a frame the codec cannot parse is answered with an error frame to
\* the sender, nothing is published, ws.data, subscriptions and the
\* registry are unchanged and the socket stays open.
C6_InvalidFrame ==
    [][(ev'.op = "message" /\ IsNull(parseWSMessage(ev'.raw)))
         => /\ sent' = OnlyTo(ev'.conn, <<ErrorFrame("Invalid message format")>>)
            /\ wsData' = wsData
            /\ wsTopics' = wsTopics
            /\ roomConnections' = roomConnections
            /\ wsOpen' = wsOpen
            /\ wsOpen'[ev'.conn]]_vars

\* a joined connection has sent an unparseable frame and got the error
C6_Witness ==
    /\ ev.op = "message"
    /\ IsNull(EvParsed)
    /\ Truthy(wsData[ev.conn].roomId)
    /\ sent[ev.conn] = <<ErrorFrame("Invalid message format")>>

\* C7: a pad-hit, sync-state or tempo-change from a connection whose room
\* is unset gets an error frame; nothing is published and ws.data,
\* subscriptions and the registry are unchanged.
C7_NotJoined ==
    [][(/\ ev'.op = "message"
        /\ ~IsNull(parseWSMessage(ev'.raw))
        /\ parseWSMessage(ev'.raw).type.v \in {"pad-hit", "sync-state", "tempo-change"}
        /\ ~Truthy(wsData[ev'.conn].roomId))
         => /\ Len(sent'[ev'.conn]) = 1
            /\ IsErrorFrame(sent'[ev'.conn][1])
            /\ \A d \in Conns \ {ev'.conn} : sent'[d] = <<>>
            /\ wsData' = wsData
            /\ wsTopics' = wsTopics
            /\ roomConnections' = roomConnections]_vars

\* an unjoined connection has sent a tempo-change while a room has members
C7_Witness ==
    /\ EvIs("tempo-change")
    /\ wsData[ev.conn].roomId = JSNull
    /\ sent[ev.conn] = <<ErrorFrame("Not joined to a room")>>
    /\ DOMAIN roomConnections # {}

\* C8: no connection is still open once more than 30 s have passed without
\* any frame arriving.
C8_StaleClosed ==
    quietMs > HEARTBEAT_INTERVAL => \A c \in Conns : ~wsOpen[c]

\* C32: a connection whose close was handled is in no set of the registry,
\* and no set of the registry is empty.
C32_ClosePrunes ==
    /\ \A c \in Conns : ~wsOpen[c] => RoomsOf(c) = {}
    /\ \A r \in DOMAIN roomConnections : roomConnections[r] # {}

\* the last connection of a room has closed and the room has left the registry
C32_Witness ==
    /\ ev.op = "close" /\ ~wsOpen[ev.conn]
    /\ IsStr(wsData[ev.conn].roomId, "r1")
    /\ "r1" \notin DOMAIN roomConnections
    /\ "r2" \in DOMAIN roomConnections

\* C33: a join of room R as controller sends one request-sync to every other
\* connection subscribed to R and nothing to anyone else; a join as renderer
\* sends nothing; no other frame makes the broker send a request-sync.
C33_RequestSyncOnJoin ==
    /\ EvIs("join")
          => LET R == EvParsed.roomId.v IN
             sent = [d \in Conns |->
                       IF /\ IsStr(EvParsed.role, "controller")
                          /\ d # ev.conn /\ R \in wsTopics[d]
                       THEN <<RequestSyncFrame>> ELSE <<>>]
    /\ (\E d \in Conns : \E i \in 1..Len(sent[d]) : sent[d][i] = RequestSyncFrame)
          => EvIs("join") /\ IsStr(EvParsed.role, "controller")

\* a controller joined a room in which a renderer and another controller are
C33_Witness ==
    /\ EvIs("join") /\ IsStr(EvParsed.role, "controller")
    /\ \A d \in Conns \ {ev.conn} : sent[d] = <<RequestSyncFrame>>
    /\ \E d \in Conns : IsStr(wsData[d].role, "daw") /\ sent[d] # <<>>
    /\ sent[ev.conn] = <<>>

---------------------------------------------------------------------------
(* claims about the client transport *)

TimerPending == \E i \in TimerIds : timers[i].pending
OnSocket(s, frames) == [i \in 1..Len(frames) |-> [sock |-> s, frame |-> frames[i]]]
Serialized(msgs) == [i \in 1..Len(msgs) |-> serializeWSMessage(msgs[i])]

\* C4: a message handed to a send operation while the socket is not open is
\* appended to the queue; the queue changes in no other way until a socket
\* opens, and the open handler then writes the join frame followed by the
\* queued messages in their order and leaves the queue empty; a message
\* sent while the socket is open is written at once, after them.
C4_QueuePreserved ==
    [][/\ (cev'.op = "send" /\ ~IsOpen(Transport))
            => /\ messageQueueRef' = Append(messageQueueRef, cev'.arg)
               /\ tx' = <<>>
       /\ (cev'.op = "send" /\ IsOpen(Transport))
            => /\ messageQueueRef' = messageQueueRef
               /\ tx' = OnSocket(wsRef, <<serializeWSMessage(cev'.arg)>>)
       /\ cev'.op = "onopen"
            => /\ messageQueueRef' = <<>>
               /\ wsRef = cev'.sock
               /\ tx' = OnSocket(cev'.sock,
                           <<JoinFrame(sockets[cev'.sock].props.roomId,
                                       sockets[cev'.sock].props.role)>>
                           \o Serialized(messageQueueRef))
       /\ cev'.op \notin {"send", "onopen"}
            => messageQueueRef' = messageQueueRef]_vars

\* a socket has opened with two different messages queued: join, then both
C4_Witness ==
    /\ cev.op = "onopen"
    /\ Len(tx) = 3
    /\ tx[1].frame = JoinFrame("r1", "controller")
    /\ tx[2].frame = serializeWSMessage(PadHitMsg(4))
    /\ tx[3].frame = serializeWSMessage(PadHitMsg(3))

\* C9: after teardown no reconnect timer is pending, no heartbeat timer
\* runs, no socket is connecting or open and nothing is written.
C9_TeardownFinal ==
    lifecycle = "unmounted"
       => /\ ~TimerPending
          /\ heartbeatTimers = 0
          /\ \A s \in SockIds : sockets[s].readyState \notin {"CONNECTING", "OPEN"}
          /\ tx = <<>>

DelayArithmetic ==
    /\ reconnectDelayRef' >= INITIAL_RECONNECT_DELAY
    /\ reconnectDelayRef' <= MAX_RECONNECT_DELAY
    /\ cev'.op = "onclose" => /\ timeoutDelay' = reconnectDelayRef
                              /\ reconnectDelayRef' = reconnectDelayRef
    /\ cev'.op = "reconnect"
         => reconnectDelayRef' = Min(reconnectDelayRef * 2, MAX_RECONNECT_DELAY)
    /\ cev'.op = "onopen" => reconnectDelayRef' = INITIAL_RECONNECT_DELAY
    /\ cev'.op \notin {"onclose", "reconnect", "onopen"}
         => reconnectDelayRef' = reconnectDelayRef

\* C11: the reconnect delay starts at 1 s, doubles with every reconnect
\* attempt up to 30 s and stays within [1 s, 30 s]; onopen resets it to
\* 1 s, and the reconnect timer set when a socket that had opened closes
\* waits 1 s.
C11_ReconnectDelay ==
    [][/\ DelayArithmetic
       /\ (cev'.op = "onclose" /\ sockets[cev'.sock].opened)
            => timeoutDelay' = INITIAL_RECONNECT_DELAY]_vars

\* the delay arithmetic of C11 without its last sentence
C11_Arithmetic == [][DelayArithmetic]_vars

\* the delay has been doubled up to the cap
C11_Capped ==
    /\ cev.op = "reconnect"
    /\ reconnectDelayRef = MAX_RECONNECT_DELAY

PendingTimers == {i \in TimerIds : timers[i].pending}
LiveSockets == {s \in SockIds : sockets[s].readyState \in {"CONNECTING", "OPEN"}}

\* C37: at no time is more than one reconnect timer pending, and at no
\* time is more than one socket connecting or open.
C37_OneTimerOneSocket ==
    /\ Cardinality(PendingTimers) <= 1
    /\ Cardinality(LiveSockets) <= 1

\* the second half of C37 alone: never two sockets connecting or open
C37_OneSocket == Cardinality(LiveSockets) <= 1

\* C38: while the current socket is open and its onopen has run, exactly one
\* heartbeat timer runs; the close event of a socket that is not the
\* current one leaves the heartbeat of an open current socket running; and
\* no heartbeat timer runs while no socket is open.
C38_Heartbeat ==
    /\ (wsRef # 0 /\ sockets[wsRef].readyState = "OPEN" /\ sockets[wsRef].opened)
          => heartbeatTimers = 1
    /\ (cev.op = "onclose" /\ cev.sock # wsRef /\ wsRef # 0
           /\ sockets[wsRef].readyState = "OPEN")
          => heartbeatTimers = 1
    /\ heartbeatTimers > 0 => \E s \in SockIds : sockets[s].readyState = "OPEN"

\* never more than one heartbeat timer, and the ref tells whether one runs
C38_AtMostOne ==
    /\ heartbeatTimers \in {0, 1}
    /\ heartbeatIntervalRef <=> heartbeatTimers = 1

---------------------------------------------------------------------------
(* claims about the mixer *)

ActiveVoices(vs) == {k \in VoiceIds : vs[k].active}
\* the voices with the largest cursor
Furthest(vs) == {k \in VoiceIds : \A j \in VoiceIds : vs[j].position <= vs[k].position}
\* the trigger the last event was, for a sound that was in the store
Triggered(s) == mev.op = "trigger" /\ mev.soundId = s /\ s \in DOMAIN samples

\* C12: a trigger for a sound in the sample store takes exactly one voice,
\* which is then active, bound to the sound, in attack, with cursor 0 and
\* level 0, whether or not a voice was idle; a trigger for a sound that is
\* not in the store changes no voice.
C12_TriggerStarts ==
    [][mev'.op = "trigger"
         => IF mev'.soundId \in DOMAIN samples
            THEN \E k \in VoiceIds :
                    /\ voices'[k] = Started(mev'.soundId)
                    /\ \A j \in VoiceIds \ {k} : voices'[j] = voices[j]
            ELSE voices' = voices]_vars

\* a trigger with no voice idle has started the sound on the second voice
\* while the first goes on playing
C12_Witness ==
    /\ Triggered("a")
    /\ mev.idle = 0
    /\ voices[2] = Started("a")
    /\ voices[1].active /\ voices[1].position > 0

\* C13: when every voice is active, a trigger takes the voice with the
\* largest cursor, the lowest index among equals; afterwards every voice is
\* active, the taken one is freshly started and the others are unchanged.
C13_StealsFurthest ==
    [][(/\ mev'.op = "trigger"
        /\ mev'.soundId \in DOMAIN samples
        /\ ActiveVoices(voices) = VoiceIds)
         => /\ voices' = [voices EXCEPT ![Lowest(Furthest(voices))] = Started(mev'.soundId)]
            /\ ActiveVoices(voices') = VoiceIds]_vars

\* with every voice active and the same cursor on all, a trigger has taken
\* the first voice
C13_Witness ==
    /\ Triggered("b")
    /\ mev.idle = 0
    /\ voices[1] = Started("b")
    /\ \A k \in VoiceIds \ {1} : voices[k].active /\ voices[k].position = BlockSize

\* C14: when some voice is not active, a trigger takes the first such voice
\* and leaves every other voice unchanged.
C14_IdleFirst ==
    [][(/\ mev'.op = "trigger"
        /\ mev'.soundId \in DOMAIN samples
        /\ ActiveVoices(voices) # VoiceIds)
         => voices' = [voices EXCEPT ![Lowest(VoiceIds \ ActiveVoices(voices))] =
                                          Started(mev'.soundId)]]_vars

\* a trigger has taken the idle first voice while the second voice goes on
\* playing the same sound
C14_Witness ==
    /\ Triggered("a")
    /\ mev.idle = 1
    /\ voices[1] = Started("a")
    /\ voices[2].active /\ voices[2].soundId = "a" /\ voices[2].position > 0

\* the voice k as process found it, then as each frame of the block left it
FrameTrace(k) == <<voices[k]>> \o voiceFrames'[k]
\* the envelope of a voice from the end of one frame (a) to the end of the next (b)
EnvelopeStep(a, b) ==
    /\ (a.state = "attack" /\ b.state \in {"attack", "sustain"}) => b.envLevel >= a.envLevel
    /\ b.state \in {"release", "idle"} => b.envLevel <= a.envLevel
    /\ b.state = "sustain" => b.envLevel = EnvOne
EnvelopeBounded ==
    \A k \in VoiceIds :
        /\ voices[k].envLevel \in 0..EnvOne
        /\ voices[k].state = "sustain" => voices[k].envLevel = EnvOne

\* C15: from frame to frame of a block the envelope level of a voice does not
\* decrease while the voice is in attack, does not increase while it is in
\* release, and is 1 while it is in sustain; in every state every voice's
\* level is within [0, 1] (EnvOne is level 1).
C15_Envelope ==
    /\ []EnvelopeBounded
    /\ [][mev'.op = "process"
            => \A k \in VoiceIds : \A n \in 1..Len(voiceFrames'[k]) :
                  /\ EnvelopeStep(FrameTrace(k)[n], FrameTrace(k)[n + 1])
                  /\ voiceFrames'[k][n].envLevel \in 0..EnvOne]_vars

\* one block in which a voice went from sustain into release and ramped
\* down, while another ramped up through attack into sustain
C15_Witness ==
    /\ mev.op = "process"
    /\ \E k, j \in VoiceIds :
          /\ Len(voiceFrames[k]) = BlockSize /\ Len(voiceFrames[j]) = BlockSize
          /\ voiceFrames[k][1].state = "attack"
          /\ voiceFrames[k][1].envLevel \in 1..(EnvOne - 1)
          /\ voiceFrames[k][BlockSize].state = "sustain"
          /\ voiceFrames[j][BlockSize].state = "release"
          /\ voiceFrames[j][BlockSize].envLevel \in 1..(EnvOne - 1)

\* the active voices bound to a sound whose sample in the store has no frame
OnEmptySample == {k \in VoiceIds : /\ voices[k].active
                                   /\ voices[k].soundId \in DOMAIN samples
                                   /\ samples[voices[k].soundId].length = 0}
\* the mixer with voice k switched off
Without(k) == [Mixer EXCEPT !.voices[k].active = FALSE]

\* C16: a voice started on a sound whose sample has length 0 is inactive
\* when the first block processed after the trigger ends (process given an
\* output of at least one channel), after one frame at most, and the block's
\* output is what it would be without that voice.
C16_EmptySample ==
    [][(mev'.op = "process" /\ mev'.chans >= 1)
         => \A k \in OnEmptySample :
               /\ ~voices'[k].active
               /\ voices'[k].state = "idle"
               /\ Len(voiceFrames'[k]) = 1
               /\ output' = process(Without(k), mev'.chans).output]_vars

\* a block has ended the voice triggered on the empty sample in its first
\* frame while another voice was heard
C16_Witness ==
    /\ mev.op = "process" /\ mev.chans >= 1
    /\ \E k, j \in VoiceIds :
          /\ voiceFrames[k] = <<[Voice0 EXCEPT !.soundId = "b"]>>
          /\ voices[k] = [Voice0 EXCEPT !.soundId = "b"]
          /\ samples["b"].length = 0
          /\ voices[j].active /\ voices[j].soundId = "a"
          /\ output[1][1].sum > 0

\* the active voices bound to a sound that is no longer in the store
OnUnloaded == {k \in VoiceIds : voices[k].active /\ voices[k].soundId \notin DOMAIN samples}

\* C17: on the first block processed after a sound was unloaded, every voice
\* that was active and bound to it leaves attack and sustain: it is in
\* release, or idle with the ramp completed, with a level no higher than before.
C17_UnloadReleases ==
    [][(mev'.op = "process" /\ mev'.chans >= 1)
         => \A k \in OnUnloaded :
               /\ voices'[k].state \in {"release", "idle"}
               /\ voices'[k].envLevel <= voices[k].envLevel]_vars

\* the sample store after load-sample then unload-sample for sound s
LoadUnload(s) == unloadSample(loadSample(Mixer, s, Decoded(s)), s).samples

\* C18, as stated: from every state of the sample store, loading a sound and
\* then unloading it leaves the store as it was before the load.
C18_RoundTrip == \A s \in SoundIds : LoadUnload(s) = samples

\* C18, amended: loading a sound and then unloading it leaves the store as
\* it was before the load when the sound was not in the store; when it was,
\* the store loses that sound's entry and keeps every other entry.
C18_RoundTripFresh ==
    \A s \in SoundIds :
        /\ s \notin DOMAIN samples => LoadUnload(s) = samples
        /\ DOMAIN LoadUnload(s) = DOMAIN samples \ {s}
        /\ \A t \in DOMAIN LoadUnload(s) : LoadUnload(s)[t] = samples[t]

\* sound b has just been unloaded from a store that still holds sound a
C18_Witness ==
    /\ mev.op = "unload-sample" /\ mev.soundId = "b"
    /\ DOMAIN samples = {"a"}
    /\ LoadUnload("b") = samples
    /\ loadSample(Mixer, "b", Decoded("b")).samples # samples

\* the left channel the block would get with a stereo output: per frame the
\* sum of the voices' left samples times their levels, soft clipped once
LeftOfStereo == process(Mixer, 2).output[1]

\* C19: with an output of one channel, that channel gets for every frame the
\* soft-clipped sum of the left contributions only, the soft clip applied once.
C19_MonoIsLeft ==
    [][(mev'.op = "process" /\ mev'.chans = 1) => output'[1] = LeftOfStereo]_vars

\* C27: a heartbeat frame from a connection, joined or not, makes the broker
\* send one pong to that connection and nothing to any other, and leaves
\* every connection's room and role, the subscriptions and the registry as
\* they were.
C27_HeartbeatPong ==
    [][(ev'.op = "message" /\ FrameType(ev'.raw) = "heartbeat")
         => /\ sent' = OnlyTo(ev'.conn, <<PongFrame>>)
            /\ wsData' = wsData
            /\ wsTopics' = wsTopics
            /\ roomConnections' = roomConnections]_vars

\* a connection that shares its room with another has been sent the pong
\* for its heartbeat
C27_Witness ==
    /\ ev.op = "message" /\ ev.raw = HeartbeatFrame
    /\ sent[ev.conn] = <<PongFrame>>
    /\ \E r \in RoomIds : r \in DOMAIN roomConnections
                          /\ ev.conn \in roomConnections[r]
                          /\ Cardinality(roomConnections[r]) >= 2

\* C30: every change of a voice's lifecycle (idle when the voice is not
\* active, else its state) is idle -> attack on a trigger, attack ->
\* sustain at level 1, attack or sustain -> release at the end of the
\* sample or on stop-all, release -> idle at level 0, or an active voice
\* taken by a trigger; checked from frame to frame of every block and
\* across every message.
C30_Lifecycle ==
    [][\A k \in VoiceIds :
         LET seq == <<voices[k]>> \o voiceFrames'[k] \o <<voices'[k]>>
             Phase(v) == IF v.active THEN v.state ELSE "idle"
             AtEnd(v) == /\ v.soundId \in DOMAIN samples
                         /\ v.position >= samples[v.soundId].length
         IN \A n \in 1..(Len(seq) - 1) :
               LET a == seq[n]
                   b == seq[n + 1]
               IN \/ Phase(a) = Phase(b)
                  \/ mev'.op = "trigger" /\ b = Started(mev'.soundId)
                  \/ /\ mev'.op = "stop-all"
                     /\ Phase(a) \in {"attack", "sustain"} /\ Phase(b) = "release"
                  \/ /\ mev'.op = "process"
                     /\ \/ Phase(a) = "attack" /\ Phase(b) = "sustain" /\ b.envLevel = EnvOne
                        \/ /\ Phase(a) \in {"attack", "sustain"} /\ AtEnd(a)
                           /\ Phase(b) \in {"release", "idle"}
                        \/ Phase(a) = "release" /\ Phase(b) = "idle" /\ b.envLevel = 0]_vars

\* C31: stop-all puts every active voice into release and leaves its sound
\* id, cursor and level, every inactive voice and the sample store as they
\* were; a voice in release stops being active only in a process call that
\* has brought its level down to 0.
C31_StopAll ==
    [][/\ mev'.op = "stop-all"
          => /\ \A k \in VoiceIds :
                   IF voices[k].active
                   THEN /\ voices'[k].active /\ voices'[k].state = "release"
                        /\ voices'[k].soundId = voices[k].soundId
                        /\ voices'[k].position = voices[k].position
                        /\ voices'[k].envLevel = voices[k].envLevel
                   ELSE voices'[k] = voices[k]
             /\ samples' = samples
       /\ \A k \in VoiceIds :
             (voices[k].active /\ voices[k].state = "release" /\ ~voices'[k].active)
                => mev'.op = "process" /\ voices'[k].envLevel = 0]_vars

\* C35: a voice is inactive exactly when its state is idle.
C35_InactiveIsIdle == \A k \in VoiceIds : ~voices[k].active <=> voices[k].state = "idle"

\* C40: while the host keeps processing blocks, every active voice stops
\* being active unless a trigger starts it again; a block takes BlockSize
\* frames off the frames it has left, which are at most the rest of its
\* sample and the release ramp, and it stops within that many frames.
C40_VoicesStop ==
    /\ [][(mev'.op = "process" /\ mev'.chans >= 1)
            => \A k \in VoiceIds \ OnUnloaded :
                  LET Left(v) ==
                         IF v.state = "release"
                         THEN IF v.envLevel = 0 THEN 1
                              ELSE (v.envLevel + EnvOne \div releaseSamples - 1)
                                       \div (EnvOne \div releaseSamples)
                         ELSE IF v.position < samples[v.soundId].length
                              THEN samples[v.soundId].length - v.position + releaseSamples
                              ELSE releaseSamples
                  IN voices[k].active
                        => IF voices'[k].active
                           THEN Left(voices'[k]) <= Left(voices[k]) - BlockSize
                           ELSE Len(voiceFrames'[k]) <= Left(voices[k])]_vars
    /\ \A k \in VoiceIds :
          voices[k].active
             ~> (~voices[k].active \/ (mev.op = "trigger" /\ voices[k] = Started(mev.soundId)))

\* a voice that stop-all put into release while in attack has stopped at the
\* end of its ramp
C40_Witness ==
    /\ mev.op = "process"
    /\ \E k \in VoiceIds :
          /\ ~voices[k].active /\ voices[k].state = "idle"
          /\ voices[k].soundId \in DOMAIN samples
          /\ voices[k].releaseStart = 0 /\ samples[voices[k].soundId].length > 0
          /\ Len(voiceFrames[k]) >= 1

---------------------------------------------------------------------------
(* claims about the codec *)

\* one valid message of every type the wire carries
WireMessages ==
    {[type |-> Str("join"), roomId |-> Str(r), role |-> Str(role)] :
         r \in RoomIds, role \in Roles}
    \cup {[type |-> Str("pad-hit"), padIndex |-> Num(5)],
          [type |-> Str("pad-hit"), padIndex |-> Num(5), velocity |-> Num(100)],
          [type |-> Str("sync-state"), tempo |-> Num(140), padMappings |-> ObjV(Mappings0)],
          [type |-> Str("tempo-change"), tempo |-> Num(120)],
          [type |-> Str("request-sync")],
          [type |-> Str("heartbeat")],
          [type |-> Str("pong")],
          [type |-> Str("error"), message |-> Str("Invalid message format")]}

\* the members of a message that hold a value
Defined(m) == {k \in DOMAIN m : m[k].t # "undefined"}
\* a is a message with the members of b and their values
SameMessage(a, b) ==
    IF IsNull(a) THEN FALSE
    ELSE Defined(a) = Defined(b) /\ \A k \in Defined(a) : a[k] = b[k]
RoundTrips(m) == SameMessage(parseWSMessage(serializeWSMessage(m)), m)

\* the frames of the last event: the one the broker received and the ones
\* it wrote to the connections, which the pages parse
InFlight == {ev.raw} \cup UNION {{sent[c][i] : i \in 1..Len(sent[c])} : c \in Conns}

\* C20: parsing the serialized text of a valid message gives the message
\* back, for every type of the wire: join, pad-hit with and without velocity,
\* sync-state, tempo-change, request-sync, heartbeat, pong and error; stated
\* for every message whose text is on the wire.
C20_RoundTrip ==
    \A m \in WireMessages : serializeWSMessage(m) \in InFlight => RoundTrips(m)

\* C21: a pad-hit frame is accepted by the codec exactly when its pad index
\* is an integer in 0..15; every other pad-hit frame parses to null.
C21_PadIndexRange ==
    (ev.op = "message" /\ FrameType(ev.raw) = "pad-hit")
        => LET x == Get(ev.raw.fields, "padIndex") IN
           ~IsNull(EvParsed) <=> (x.t = "number" /\ "half" \notin DOMAIN x /\ x.v \in 0..15)

\* C22: a tempo-change or sync-state frame is accepted by the codec exactly
\* when its tempo is in [20, 300], and no tempo-change or sync-state frame
\* the broker writes to a connection carries a tempo outside [20, 300].
C22_TempoRange ==
    /\ (ev.op = "message" /\ FrameType(ev.raw) \in {"tempo-change", "sync-state"})
          => (~IsNull(EvParsed) <=> ev.raw.fields.tempo.v \in 20..300)
    /\ \A c \in Conns : \A i \in 1..Len(sent[c]) :
          FrameType(sent[c][i]) \in {"tempo-change", "sync-state"}
              => sent[c][i].fields.tempo.v \in 20..300

\* C23: a join frame whose room id is the empty string, or whose role is
\* not one of the two role literals, parses to null and is answered with the
\* error for an invalid message and nothing else; no connection is ever
\* subscribed to, or registered under, the empty room id.
C23_JoinRejected ==
    /\ (/\ ev.op = "message" /\ FrameType(ev.raw) = "join"
        /\ \/ IsStr(Get(ev.raw.fields, "roomId"), "")
           \/ Get(ev.raw.fields, "role") \notin {Str(r) : r \in Roles})
          => /\ IsNull(EvParsed)
             /\ sent = OnlyTo(ev.conn, <<ErrorFrame("Invalid message format")>>)
    /\ \A c \in Conns : "" \notin wsTopics[c]
    /\ "" \notin DOMAIN roomConnections

---------------------------------------------------------------------------
(* claims about the pages of a room *)

\* C3: a controller whose join finds a renderer connected in its room is
\* eventually handed a sync-state frame, with no action of a user, unless
\* it or the renderers disconnect first.
C3_SyncOnJoin == \A c \in Conns : (c \in syncDue) ~> (c \notin syncDue)

---------------------------------------------------------------------------
(* claims about the audio host bridge *)

C25_InitAfterError ==
    [][/\ engine'.state # engine.state
           => <<engine.state, engine'.state>> \in
                 {<<"uninitialized", "initializing">>, <<"initializing", "ready">>,
                  <<"initializing", "error">>, <<"error", "initializing">>}
       /\ (/\ aev'.op = "init" /\ engine.state = "error"
           /\ ~page.isMobile /\ ~hook.initCalledRef)
           => engine'.state = "initializing"]_vars

\* C26: loadSound and trigger called while the engine is not ready post no
\* message, leave the engine as it was and throw nothing.
C26_NotReadyNoOp ==
    [][(aev'.op \in {"loadSound", "trigger"} /\ engine.state # "ready")
          => posted' = <<>> /\ engine' = engine /\ aev'.threw = "none"]_vars

---------------------------------------------------------------------------
(* claims about the rooms table *)

\* C28: once a save request for the room was answered with success, getRoom
\* returns the room whatever the clock shows and whatever the cleanup job
\* did; getRoom returns no room for an unsaved room whose expiry has passed.
C28_SavedNeverExpires ==
    /\ saveReturned => getRoom(rooms, Room, now) # NoRoom
    /\ \A r \in rooms : (~r.saved /\ r.expiresAt # NullDate /\ r.expiresAt < now)
                             => getRoom(rooms, Room, now) = NoRoom

\* C29: the update of a PUT for one pad leaves the stored mapping of every
\* other pad as it was, so that the assignments of two requests to distinct
\* pads are both stored once both have returned.
C29_PadsIndependent ==
    [][(dev'.op = "pad" /\ dev'.status = 200)
          => \A p \in PadKeys \ {dev'.padIndex} :
                /\ (p \in DOMAIN Stored) = (p \in DOMAIN Stored')
                /\ p \in DOMAIN Stored => Stored'[p] = Stored[p]]_vars

\* C34: when the page of a renderer takes a request-sync frame from its
\* socket it writes a sync-state frame with its tempo and pad mappings; the
\* page of a controller that takes one writes nothing.
C34_RequestSyncAnswered ==
    [][\A c \in Conns :
          (/\ wsOpen[c] /\ wsOpen'[c]
           /\ inbox[c] # <<>> /\ Head(inbox[c]) = RequestSyncFrame
           /\ inbox'[c] = Tail(inbox[c]))
             => IF app[c].isMobile THEN UNCHANGED <<ev, sent>>
                ELSE ev' = [op |-> "message", conn |-> c, raw |-> SyncStateOf(app[c])]]_vars

---------------------------------------------------------------------------
(* claims about the message port *)

\* C39: the last trigger message the mixer took from the port named a sound
\* that was in its sample store when it took it.
C39_TriggerStored == pev.type = "trigger" => pev.stored

\* the mixer takes a trigger for a sound the bridge has unloaded since it
\* posted the trigger; the unload message is next on the port
C39_Witness ==
    /\ pev.type = "trigger"
    /\ pev.soundId \notin engine.loadedSamples
    /\ port # <<>>
    /\ Head(port) = UnloadSampleMsg(pev.soundId)
    /\ pev.soundId \in DOMAIN samples

\* the store the mixer will have once it has taken every message of the port
RECURSIVE Replay(_, _)
Replay(store, msgs) ==
    IF msgs = <<>> THEN store
    ELSE Replay(IF Head(msgs).type = "load-sample" THEN store \cup {Head(msgs).soundId}
                ELSE IF Head(msgs).type = "unload-sample" THEN store \ {Head(msgs).soundId}
                ELSE store,
                Tail(msgs))

\* the bridge's loaded set is the store the mixer will have
PortAgrees == Replay(DOMAIN samples, port) = engine.loadedSamples

=============================================================================
